---------------------------- MODULE Spec2Model ----------------------------
(***************************************************************************)
(* Model of halo2_proofs/src/plonk/evaluation.rs: the expression compiler  *)
(* (GraphEvaluator), the row evaluator, the reference recursive evaluator  *)
(* and the quotient assembler evaluate_h (CPU path and accelerator path).  *)
(*                                                                         *)
(* Field elements are the integers modulo P.  Expressions, value sources   *)
(* and calculations are tagged tuples whose first component is the Rust    *)
(* variant name.  Rust indices are 0-based and are kept 0-based inside     *)
(* the tuples; sequences are indexed with index + 1.                       *)
(***************************************************************************)
EXTENDS Integers, Sequences, FiniteSets, TLC

(***************************************************************************)
(* Bounds of the model.                                                    *)
(***************************************************************************)
\* largest number of operators in an expression handed to the compiler
MaxOps == 2
\* largest value of multicore::current_num_threads()
MaxThreads == 3
\* largest number of proofs in a batch
MaxProofs == 2
\* largest number of committed permutation sets of a proof
MaxSets == 3
\* the largest rot_scale of a get_rotation_idx call
MaxRotScale == 4
\* the largest number of input (table) expressions of a lookup argument
MaxListLen == 2
\* the largest number of calls of the graph methods on one GraphEvaluator
MaxCalls == 3

(***************************************************************************)
(* The scalar field C::ScalarExt and the evaluation domain.                *)
(***************************************************************************)
\* modulus of the scalar field
P == 73
\* C::Scalar::ZETA, a primitive cube root of unity
ZETA == 8
\* C::Scalar::DELTA
DELTA == 2
\* domain.k()
K == 2
\* domain.extended_k()
ExtendedK == 3
\* domain.get_extended_omega(), of multiplicative order 2^ExtendedK
extended_omega == 10

F == 0 .. (P - 1)

FAdd(a, b) == (a + b) % P
FSub(a, b) == (a - b) % P
FMul(a, b) == (a * b) % P
FNeg(a) == (0 - a) % P

RECURSIVE Pow2(_)
Pow2(n) == IF n = 0 THEN 1 ELSE 2 * Pow2(n - 1)

RECURSIVE FPow(_, _)
FPow(a, n) == IF n = 0 THEN 1 ELSE FMul(a, FPow(a, n - 1))

\* domain.extended_len()
size == Pow2(ExtendedK)
\* 1 << (domain.extended_k() - domain.k())
rot_scale == Pow2(ExtendedK - K)

Min(a, b) == IF a <= b THEN a ELSE b

Rows == 0 .. (size - 1)

(***************************************************************************)
(* get_rotation_idx: (idx + rot * rot_scale).rem_euclid(isize).  For a     *)
(* positive modulus % is the nonnegative remainder, as rem_euclid is.      *)
(***************************************************************************)
\* the width of i32, scaled down with the domain
IntBits == 6
IntMin == 0 - Pow2(IntBits - 1)
IntMax == Pow2(IntBits - 1) - 1
\* i32 arithmetic without overflow checks: the result modulo 2^IntBits
WrapI32(x) == ((x - IntMin) % Pow2(IntBits)) + IntMin
\* i32 arithmetic with overflow checks: the product or the sum leaves i32
RotationOverflows(idx, rot, rscale) ==
    \/ rot * rscale < IntMin
    \/ rot * rscale > IntMax
    \/ idx + (rot * rscale) > IntMax

\* ((idx as i32) + (rot * rot_scale)).rem_euclid(isize) as usize, the value a
\* build without overflow checks returns
get_rotation_idx(idx, rot, rscale, isize) ==
    WrapI32(idx + WrapI32(rot * rscale)) % isize

(***************************************************************************)
(* ValueSource: derived PartialOrd compares the variant first, then the    *)
(* fields from left to right.                                              *)
(***************************************************************************)
VSRank(tag) ==
    CASE tag = "Constant" -> 0
      [] tag = "Intermediate" -> 1
      [] tag = "Fixed" -> 2
      [] tag = "Advice" -> 3
      [] tag = "Instance" -> 4
      [] tag = "Challenge" -> 5
      [] tag = "Beta" -> 6
      [] tag = "Gamma" -> 7
      [] tag = "Theta" -> 8
      [] tag = "Y" -> 9
      [] tag = "PreviousValue" -> 10

VSLeq(a, b) ==
    IF a[1] # b[1] THEN VSRank(a[1]) < VSRank(b[1])
    ELSE IF Len(a) = 1 THEN TRUE
    ELSE IF Len(a) = 2 THEN a[2] <= b[2]
    ELSE a[2] < b[2] \/ (a[2] = b[2] /\ a[3] <= b[3])

Zero == <<"Constant", 0>>
One == <<"Constant", 1>>
Two == <<"Constant", 2>>

\* ValueSource::get
Get(vs, rotations, constants, intermediates, tabs, ch, previous_value) ==
    CASE vs[1] = "Constant" -> constants[vs[2] + 1]
      [] vs[1] = "Intermediate" -> intermediates[vs[2] + 1]
      [] vs[1] = "Fixed" -> tabs.fixed[vs[2] + 1][rotations[vs[3] + 1] + 1]
      [] vs[1] = "Advice" -> tabs.advice[vs[2] + 1][rotations[vs[3] + 1] + 1]
      [] vs[1] = "Instance" -> tabs.instance[vs[2] + 1][rotations[vs[3] + 1] + 1]
      [] vs[1] = "Challenge" -> tabs.challenges[vs[2] + 1]
      [] vs[1] = "Beta" -> ch.beta
      [] vs[1] = "Gamma" -> ch.gamma
      [] vs[1] = "Theta" -> ch.theta
      [] vs[1] = "Y" -> ch.y
      [] vs[1] = "PreviousValue" -> previous_value

\* Calculation::evaluate
CalcEvaluate(calc, rotations, constants, intermediates, tabs, ch, previous_value) ==
    LET get_value(v) == Get(v, rotations, constants, intermediates, tabs, ch, previous_value)
    IN  CASE calc[1] = "Add" -> FAdd(get_value(calc[2]), get_value(calc[3]))
          [] calc[1] = "Sub" -> FSub(get_value(calc[2]), get_value(calc[3]))
          [] calc[1] = "Mul" -> FMul(get_value(calc[2]), get_value(calc[3]))
          [] calc[1] = "Square" -> FMul(get_value(calc[2]), get_value(calc[2]))
          [] calc[1] = "Double" -> FAdd(get_value(calc[2]), get_value(calc[2]))
          [] calc[1] = "Negate" -> FNeg(get_value(calc[2]))
          [] calc[1] = "Store" -> get_value(calc[2])
          [] calc[1] = "Horner" ->
                LET HF[k \in 0 .. Len(calc[3])] ==
                        IF k = 0 THEN get_value(calc[2])
                        ELSE FAdd(FMul(HF[k - 1], get_value(calc[4])),
                                  get_value(calc[3][k]))
                IN  HF[Len(calc[3])]

(***************************************************************************)
(* GraphEvaluator: constants, rotations, calculations, num_intermediates.  *)
(* A calculation record is [calculation |-> c, target |-> t].              *)
(***************************************************************************)
\* impl Default for GraphEvaluator
DefaultGraph ==
    [constants |-> <<0, 1, 2 % P>>,
     rotations |-> <<>>,
     calculations |-> <<>>,
     num_intermediates |-> 0]

\* iter().position(..): the 0-based index of the first match, or -1 for None
Position(s, x) ==
    IF \E i \in 1 .. Len(s) : s[i] = x
    THEN (CHOOSE i \in 1 .. Len(s) : s[i] = x /\ \A j \in 1 .. (i - 1) : s[j] # x) - 1
    ELSE -1

\* GraphEvaluator::add_rotation
\* add_rotation without the search for an equal rotation
AddRotationAlwaysPush(g, rotation) ==
    [g |-> [g EXCEPT !.rotations = Append(@, rotation)],
     idx |-> Len(g.rotations)]

\* GraphEvaluator::add_rotation
AddRotation(g, rotation) ==
    LET position == Position(g.rotations, rotation)
    IN  IF position >= 0
        THEN [g |-> g, idx |-> position]
        ELSE [g |-> [g EXCEPT !.rotations = Append(@, rotation)],
              idx |-> Len(g.rotations)]

\* add_constant without the search for an equal constant
AddConstantAlwaysPush(g, constant) ==
    [g |-> [g EXCEPT !.constants = Append(@, constant)],
     vs |-> <<"Constant", Len(g.constants)>>, ok |-> TRUE]

\* GraphEvaluator::add_constant
AddConstant(g, constant) ==
    LET position == Position(g.constants, constant)
    IN  IF position >= 0
        THEN [g |-> g, vs |-> <<"Constant", position>>, ok |-> TRUE]
        ELSE [g |-> [g EXCEPT !.constants = Append(@, constant)],
              vs |-> <<"Constant", Len(g.constants)>>, ok |-> TRUE]

\* a search that never finds an equal calculation
FindCalculationNone(g, calculation) == 0

\* the record found by calculations.iter().find(|c| c.calculation == calculation)
FindCalculation(g, calculation) ==
    LET hits == {i \in 1 .. Len(g.calculations) :
                    g.calculations[i].calculation = calculation}
    IN  IF hits = {} THEN 0
        ELSE CHOOSE i \in hits : \A j \in hits : i <= j

\* add_calculation with num_intermediates advanced before it is read
AddCalculationLateTarget(g, calculation) ==
    LET existing == FindCalculation(g, calculation)
    IN  IF existing > 0
        THEN [g |-> g,
              vs |-> <<"Intermediate", g.calculations[existing].target>>,
              ok |-> TRUE]
        ELSE LET target == g.num_intermediates + 1
             IN  [g |-> [g EXCEPT
                           !.calculations =
                               Append(@, [calculation |-> calculation, target |-> target]),
                           !.num_intermediates = @ + 1],
                  vs |-> <<"Intermediate", target>>,
                  ok |-> TRUE]

\* GraphEvaluator::add_calculation
AddCalculation(g, calculation) ==
    LET existing == FindCalculation(g, calculation)
    IN  IF existing > 0
        THEN [g |-> g,
              vs |-> <<"Intermediate", g.calculations[existing].target>>,
              ok |-> TRUE]
        ELSE LET target == g.num_intermediates
             IN  [g |-> [g EXCEPT
                           !.calculations =
                               Append(@, [calculation |-> calculation, target |-> target]),
                           !.num_intermediates = @ + 1],
                  vs |-> <<"Intermediate", target>>,
                  ok |-> TRUE]

\* a Selector compiled as the constant zero instead of aborting
AbortAsZero(g) == [g |-> g, vs |-> <<"Constant", 0>>, ok |-> TRUE]

\* unreachable!(): the compilation panics, no ValueSource is returned
Abort(g) == [g |-> g, vs |-> <<"Abort">>, ok |-> FALSE]

\* SumNegated with the first branch taken from the plain Sum arm: 0 + (-b)
\* compiles to b
SumNegatedPlainZero(ra, rb) ==
    IF ra.vs = Zero THEN [g |-> rb.g, vs |-> rb.vs, ok |-> TRUE]
    ELSE IF rb.vs = Zero THEN [g |-> rb.g, vs |-> ra.vs, ok |-> TRUE]
    ELSE AddCalculation(rb.g, <<"Sub", ra.vs, rb.vs>>)

\* SumNegated with a - a folded to Constant(0)
SumNegatedCancel(ra, rb) ==
    IF ra.vs = rb.vs THEN [g |-> rb.g, vs |-> Zero, ok |-> TRUE]
    ELSE IF ra.vs = Zero THEN AddCalculation(rb.g, <<"Negate", rb.vs>>)
    ELSE IF rb.vs = Zero THEN [g |-> rb.g, vs |-> ra.vs, ok |-> TRUE]
    ELSE AddCalculation(rb.g, <<"Sub", ra.vs, rb.vs>>)

\* the Sum arm of add_expression whose right operand is Negated(b_int)
SumNegated(ra, rb) ==
    IF ra.vs = Zero THEN AddCalculation(rb.g, <<"Negate", rb.vs>>)
    ELSE IF rb.vs = Zero THEN [g |-> rb.g, vs |-> ra.vs, ok |-> TRUE]
    ELSE AddCalculation(rb.g, <<"Sub", ra.vs, rb.vs>>)

\* SumPlain that emits Add(result_a, result_b) in the order of the operands
SumPlainUnordered(ra, rb) ==
    IF ra.vs = Zero THEN [g |-> rb.g, vs |-> rb.vs, ok |-> TRUE]
    ELSE IF rb.vs = Zero THEN [g |-> rb.g, vs |-> ra.vs, ok |-> TRUE]
    ELSE AddCalculation(rb.g, <<"Add", ra.vs, rb.vs>>)

\* SumPlain without the Constant(0) short-circuits
SumPlainAlwaysAdd(ra, rb) ==
    IF VSLeq(ra.vs, rb.vs) THEN AddCalculation(rb.g, <<"Add", ra.vs, rb.vs>>)
    ELSE AddCalculation(rb.g, <<"Add", rb.vs, ra.vs>>)

\* the Sum arm of add_expression for any other right operand
SumPlain(ra, rb) ==
    IF ra.vs = Zero THEN [g |-> rb.g, vs |-> rb.vs, ok |-> TRUE]
    ELSE IF rb.vs = Zero THEN [g |-> rb.g, vs |-> ra.vs, ok |-> TRUE]
    ELSE IF VSLeq(ra.vs, rb.vs) THEN AddCalculation(rb.g, <<"Add", ra.vs, rb.vs>>)
    ELSE AddCalculation(rb.g, <<"Add", rb.vs, ra.vs>>)

\* ProductArm with the test for equal operands ahead of the tests for
\* Constant(1) and Constant(2)
ProductArmSquareFirst(ra, rb) ==
    IF ra.vs = Zero \/ rb.vs = Zero THEN [g |-> rb.g, vs |-> Zero, ok |-> TRUE]
    ELSE IF ra.vs = rb.vs THEN AddCalculation(rb.g, <<"Square", ra.vs>>)
    ELSE IF ra.vs = One THEN [g |-> rb.g, vs |-> rb.vs, ok |-> TRUE]
    ELSE IF rb.vs = One THEN [g |-> rb.g, vs |-> ra.vs, ok |-> TRUE]
    ELSE IF ra.vs = Two THEN AddCalculation(rb.g, <<"Double", rb.vs>>)
    ELSE IF rb.vs = Two THEN AddCalculation(rb.g, <<"Double", ra.vs>>)
    ELSE IF VSLeq(ra.vs, rb.vs) THEN AddCalculation(rb.g, <<"Mul", ra.vs, rb.vs>>)
    ELSE AddCalculation(rb.g, <<"Mul", rb.vs, ra.vs>>)

\* the Product arm of add_expression
ProductArm(ra, rb) ==
    IF ra.vs = Zero \/ rb.vs = Zero THEN [g |-> rb.g, vs |-> Zero, ok |-> TRUE]
    ELSE IF ra.vs = One THEN [g |-> rb.g, vs |-> rb.vs, ok |-> TRUE]
    ELSE IF rb.vs = One THEN [g |-> rb.g, vs |-> ra.vs, ok |-> TRUE]
    ELSE IF ra.vs = Two THEN AddCalculation(rb.g, <<"Double", rb.vs>>)
    ELSE IF rb.vs = Two THEN AddCalculation(rb.g, <<"Double", ra.vs>>)
    ELSE IF ra.vs = rb.vs THEN AddCalculation(rb.g, <<"Square", ra.vs>>)
    ELSE IF VSLeq(ra.vs, rb.vs) THEN AddCalculation(rb.g, <<"Mul", ra.vs, rb.vs>>)
    ELSE AddCalculation(rb.g, <<"Mul", rb.vs, ra.vs>>)

\* ScaledArm with the operands put in ValueSource order, as Product does
ScaledArmOrdered(ra, cst) ==
    IF VSLeq(ra.vs, cst.vs) THEN AddCalculation(ra.g, <<"Mul", ra.vs, cst.vs>>)
    ELSE AddCalculation(ra.g, <<"Mul", cst.vs, ra.vs>>)

\* the Scaled arm of add_expression for a factor other than zero and one
ScaledArm(ra, cst) == AddCalculation(ra.g, <<"Mul", ra.vs, cst.vs>>)

\* NegatedArm without the test for Constant(0)
NegatedArmAlwaysNegate(ra) == AddCalculation(ra.g, <<"Negate", ra.vs>>)

\* the Negated arm of add_expression for a non-constant operand
NegatedArm(ra) ==
    IF ra.vs = Zero THEN ra ELSE AddCalculation(ra.g, <<"Negate", ra.vs>>)

\* the Fixed, Advice and Instance arms of add_expression
QueryArm(g, kind, column_index, rotation) ==
    LET rot == AddRotation(g, rotation)
    IN  AddCalculation(rot.g, <<"Store", <<kind, column_index, rot.idx>>>>)

\* GraphEvaluator::add_expression
RECURSIVE AddExpression(_, _)
AddExpression(g, expr) ==
    CASE expr[1] = "Constant" -> AddConstant(g, expr[2])
      [] expr[1] = "Selector" -> Abort(g)
      [] expr[1] \in {"Fixed", "Advice", "Instance"} ->
            QueryArm(g, expr[1], expr[2], expr[3])
      [] expr[1] = "Challenge" ->
            AddCalculation(g, <<"Store", <<"Challenge", expr[2]>>>>)
      [] expr[1] = "Negated" ->
            IF expr[2][1] = "Constant" THEN AddConstant(g, FNeg(expr[2][2]))
            ELSE LET ra == AddExpression(g, expr[2])
                 IN  IF ~ra.ok THEN ra ELSE NegatedArm(ra)
      [] expr[1] = "Sum" ->
            LET negated == expr[3][1] = "Negated"
                ra == AddExpression(g, expr[2])
                rb == AddExpression(ra.g, IF negated THEN expr[3][2] ELSE expr[3])
            IN  IF ~ra.ok THEN ra
                ELSE IF ~rb.ok THEN rb
                ELSE IF negated THEN SumNegated(ra, rb)
                ELSE SumPlain(ra, rb)
      [] expr[1] = "Product" ->
            LET ra == AddExpression(g, expr[2])
                rb == AddExpression(ra.g, expr[3])
            IN  IF ~ra.ok THEN ra
                ELSE IF ~rb.ok THEN rb
                ELSE ProductArm(ra, rb)
      [] expr[1] = "Scaled" ->
            IF expr[3] = 0 THEN [g |-> g, vs |-> Zero, ok |-> TRUE]
            ELSE IF expr[3] = 1 % P THEN AddExpression(g, expr[2])
            ELSE LET cst == AddConstant(g, expr[3])
                     ra == AddExpression(cst.g, expr[2])
                 IN  IF ~ra.ok THEN ra ELSE ScaledArm(ra, cst)

(***************************************************************************)
(* EvaluationData and GraphEvaluator::evaluate.                            *)
(***************************************************************************)
\* GraphEvaluator::instance
Instance(g) ==
    [intermediates |-> [i \in 1 .. g.num_intermediates |-> 0],
     rotations |-> [i \in 1 .. Len(g.rotations) |-> 0]]

\* the scratch after the first k calculations of the graph have run
RECURSIVE RunCalculations(_, _, _, _, _, _, _)
RunCalculations(g, k, rotations, intermediates, tabs, ch, previous_value) ==
    IF k = 0 THEN intermediates
    ELSE LET before == RunCalculations(g, k - 1, rotations, intermediates,
                                       tabs, ch, previous_value)
             calc == g.calculations[k]
         IN  [before EXCEPT ![calc.target + 1] =
                 CalcEvaluate(calc.calculation, rotations, g.constants, before,
                              tabs, ch, previous_value)]

\* evaluate without the loop that writes the rotation slots
EvaluateStaleRotations(g, data, tabs, ch, previous_value, idx, rscale, isize) ==
    LET intermediates == RunCalculations(g, Len(g.calculations), data.rotations,
                                         data.intermediates, tabs, ch, previous_value)
    IN  [value |-> IF Len(g.calculations) > 0
                   THEN intermediates[g.calculations[Len(g.calculations)].target + 1]
                   ELSE 0,
         data |-> [intermediates |-> intermediates, rotations |-> data.rotations]]

\* GraphEvaluator::evaluate: the value returned and the scratch it leaves
Evaluate(g, data, tabs, ch, previous_value, idx, rscale, isize) ==
    LET rotations == [j \in 1 .. Len(data.rotations) |->
                         IF j <= Len(g.rotations)
                         THEN get_rotation_idx(idx, g.rotations[j], rscale, isize)
                         ELSE data.rotations[j]]
        intermediates == RunCalculations(g, Len(g.calculations), rotations,
                                         data.intermediates, tabs, ch, previous_value)
    IN  [value |-> IF Len(g.calculations) > 0
                   THEN intermediates[g.calculations[Len(g.calculations)].target + 1]
                   ELSE 0,
         data |-> [intermediates |-> intermediates, rotations |-> rotations]]

(***************************************************************************)
(* The simple recursive evaluator (free function evaluate), at one row.    *)
(***************************************************************************)
RECURSIVE ExprEvaluate(_, _, _, _, _)
ExprEvaluate(expr, idx, rscale, isize, tabs) ==
    CASE expr[1] = "Constant" -> expr[2]
      [] expr[1] = "Fixed" ->
            tabs.fixed[expr[2] + 1][get_rotation_idx(idx, expr[3], rscale, isize) + 1]
      [] expr[1] = "Advice" ->
            tabs.advice[expr[2] + 1][get_rotation_idx(idx, expr[3], rscale, isize) + 1]
      [] expr[1] = "Instance" ->
            tabs.instance[expr[2] + 1][get_rotation_idx(idx, expr[3], rscale, isize) + 1]
      [] expr[1] = "Challenge" -> tabs.challenges[expr[2] + 1]
      [] expr[1] = "Negated" -> FNeg(ExprEvaluate(expr[2], idx, rscale, isize, tabs))
      [] expr[1] = "Sum" ->
            FAdd(ExprEvaluate(expr[2], idx, rscale, isize, tabs),
                 ExprEvaluate(expr[3], idx, rscale, isize, tabs))
      [] expr[1] = "Product" ->
            FMul(ExprEvaluate(expr[2], idx, rscale, isize, tabs),
                 ExprEvaluate(expr[3], idx, rscale, isize, tabs))
      [] expr[1] = "Scaled" ->
            FMul(ExprEvaluate(expr[2], idx, rscale, isize, tabs), expr[3])

(***************************************************************************)
(* Inputs of the compiler run: expressions with at most MaxOps operators   *)
(* over a few leaves, and coset tables filled from a seed.                 *)
(***************************************************************************)
Atoms ==
    {<<"Constant", 0>>, <<"Constant", 1>>, <<"Constant", 2>>,
     <<"Advice", 1, 1>>, <<"Fixed", 0, -1>>, <<"Challenge", 0>>,
     <<"Selector", 0>>}

ScaleFactors == {0, 1, 3}

\* the expressions with exactly n operators, for n < MaxOps
ExprsWithOps[n \in 0 .. (MaxOps - 1)] ==
    IF n = 0 THEN Atoms
    ELSE {<<"Negated", a>> : a \in ExprsWithOps[n - 1]}
         \cup {<<"Scaled", a, f>> : a \in ExprsWithOps[n - 1], f \in ScaleFactors}
         \cup UNION {{<<"Sum", a, b>> : a \in ExprsWithOps[i],
                                        b \in ExprsWithOps[n - 1 - i]} :
                     i \in 0 .. (n - 1)}
         \cup UNION {{<<"Product", a, b>> : a \in ExprsWithOps[i],
                                            b \in ExprsWithOps[n - 1 - i]} :
                     i \in 0 .. (n - 1)}

\* e is an expression with at most MaxOps operators over Atoms
IsExpr(e) ==
    \/ \E n \in 0 .. (MaxOps - 1) : e \in ExprsWithOps[n]
    \/ \E a \in ExprsWithOps[MaxOps - 1] : e = <<"Negated", a>>
    \/ \E a \in ExprsWithOps[MaxOps - 1], f \in ScaleFactors : e = <<"Scaled", a, f>>
    \/ \E i \in 0 .. (MaxOps - 1) :
          \E a \in ExprsWithOps[i], b \in ExprsWithOps[MaxOps - 1 - i] :
             e = <<"Sum", a, b>> \/ e = <<"Product", a, b>>

(***************************************************************************)
(* Evaluator::new.                                                         *)
(***************************************************************************)
\* add_expression over a list of expressions, collecting the parts
RECURSIVE CompileAll(_, _, _)
CompileAll(g, exprs, k) ==
    IF k = 0 THEN [g |-> g, parts |-> <<>>, ok |-> TRUE]
    ELSE LET before == CompileAll(g, exprs, k - 1)
             r == AddExpression(before.g, exprs[k])
         IN  IF ~before.ok THEN before
             ELSE [g |-> r.g, parts |-> Append(before.parts, r.vs), ok |-> r.ok]

\* the polynomials of all gates, gate by gate
RECURSIVE GatePolynomials(_, _)
GatePolynomials(gates, k) ==
    IF k = 0 THEN <<>> ELSE GatePolynomials(gates, k - 1) \o gates[k]

\* the custom-gate graph with the parts of its Horner in reverse order
CustomGatesGraphReversed(cs) ==
    LET polys == GatePolynomials(cs.gates, Len(cs.gates))
        c == CompileAll(DefaultGraph, polys, Len(polys))
        reversed == [n \in 1 .. Len(c.parts) |-> c.parts[Len(c.parts) + 1 - n]]
    IN  AddCalculation(c.g, <<"Horner", <<"PreviousValue">>, reversed, <<"Y">>>>).g

\* Evaluator::new, custom gates
CustomGatesGraph(cs) ==
    LET polys == GatePolynomials(cs.gates, Len(cs.gates))
        c == CompileAll(DefaultGraph, polys, Len(polys))
    IN  AddCalculation(c.g, <<"Horner", <<"PreviousValue">>, c.parts, <<"Y">>>>).g

\* the closure evaluate_lc of Evaluator::new
EvaluateLc(g, expressions) ==
    LET c == CompileAll(g, expressions, Len(expressions))
    IN  AddCalculation(c.g, <<"Horner", Zero, c.parts, <<"Theta">>>>)

\* one lookup with beta added to the table side and gamma to the input side
LookupGraphSwapped(lookup) ==
    LET compressed_input_coset == EvaluateLc(DefaultGraph, lookup.input_expressions)
        compressed_table_coset ==
            EvaluateLc(compressed_input_coset.g, lookup.table_expressions)
        right_gamma == AddCalculation(compressed_table_coset.g,
                           <<"Add", compressed_input_coset.vs, <<"Gamma">>>>)
        lc == AddCalculation(right_gamma.g,
                           <<"Add", compressed_table_coset.vs, <<"Beta">>>>)
    IN  AddCalculation(lc.g, <<"Mul", lc.vs, right_gamma.vs>>).g

\* Evaluator::new, one lookup
LookupGraph(lookup) ==
    LET compressed_input_coset == EvaluateLc(DefaultGraph, lookup.input_expressions)
        compressed_table_coset ==
            EvaluateLc(compressed_input_coset.g, lookup.table_expressions)
        right_gamma == AddCalculation(compressed_table_coset.g,
                           <<"Add", compressed_table_coset.vs, <<"Gamma">>>>)
        lc == AddCalculation(right_gamma.g,
                           <<"Add", compressed_input_coset.vs, <<"Beta">>>>)
    IN  AddCalculation(lc.g, <<"Mul", lc.vs, right_gamma.vs>>).g

\* Evaluator::new
NewEvaluator(cs) ==
    [custom_gates |-> CustomGatesGraph(cs),
     lookups |-> [n \in 1 .. Len(cs.lookups) |-> LookupGraph(cs.lookups[n])]]

(***************************************************************************)
(* Inputs of evaluate_h: a constraint system, a proving key, and the       *)
(* per-proof witness data, each filled from small catalogues.              *)
(***************************************************************************)
Adv(c, r) == <<"Advice", c, r>>
Fix(c, r) == <<"Fixed", c, r>>
Ins(c, r) == <<"Instance", c, r>>
Minus(a, b) == <<"Sum", a, <<"Negated", b>>>>

\* no gates, no lookups, no permutation columns
EmptyCS ==
    [gates |-> <<>>, lookups |-> <<>>, columns |-> <<>>,
     degree |-> 3, blinding_factors |-> 1]

\* one gate with the polynomial Advice(0, rot 0) - Advice(0, rot 0)
TrivialCS ==
    [gates |-> << <<Minus(Adv(0, 0), Adv(0, 0))>> >>,
     lookups |-> <<>>, columns |-> <<>>,
     degree |-> 3, blinding_factors |-> 1]

\* two gates, two lookups, three permutation columns in chunks of two
RichCS ==
    [gates |-> << <<Minus(<<"Product", Adv(0, 0), Adv(1, 0)>>, Fix(0, 0)),
                    <<"Sum", Adv(0, 1), Ins(0, 0)>> >>,
                  <<<<"Scaled", Adv(1, -1), 3>>,
                    <<"Product", Adv(0, 0), Adv(1, 0)>> >> >>,
     lookups |-> <<[input_expressions |-> <<Adv(0, 0), Adv(1, 0)>>,
                    table_expressions |-> <<Fix(0, 0), Fix(1, 0)>>],
                   [input_expressions |-> <<<<"Product", Adv(0, 0), Adv(1, 0)>>>>,
                    table_expressions |-> <<Fix(1, 1)>>]>>,
     columns |-> <<<<"Advice", 0>>, <<"Fixed", 0>>, <<"Instance", 0>>>>,
     degree |-> 4, blinding_factors |-> 1]

\* one gate and one lookup whose input and table compressions are zero
BoundaryCS ==
    [gates |-> << <<Adv(0, 0)>> >>,
     lookups |-> <<[input_expressions |-> <<<<"Constant", 0>>>>,
                    table_expressions |-> <<>>]>>,
     columns |-> <<>>,
     degree |-> 3, blinding_factors |-> 1]

CSNames == {"empty", "trivial", "rich", "boundary"}

CS(name) ==
    CASE name = "empty" -> EmptyCS
      [] name = "trivial" -> TrivialCS
      [] name = "rich" -> RichCS
      [] name = "boundary" -> BoundaryCS

\* one column of size field elements, different for each salt
Column(salt) == [i \in 1 .. size |-> (salt + 3 * i * i + 5 * i * salt) % P]

\* the coefficients of one polynomial of degree below 2^K
Coeffs(salt) == [j \in 1 .. Pow2(K) |-> (salt * j + j * j + 1) % P]

\* eval_polynomial: the value of the polynomial at x
EvalPoly(poly, x) ==
    LET S[j \in 0 .. Len(poly)] ==
            IF j = 0 THEN 0 ELSE FAdd(S[j - 1], FMul(poly[j], FPow(x, j - 1)))
    IN  S[Len(poly)]

\* domain.coeff_to_extended: the values on the coset ZETA * <extended_omega>
CoeffToExtended(poly) ==
    [i \in 1 .. size |-> EvalPoly(poly, FMul(ZETA, FPow(extended_omega, i - 1)))]

\* the proving key: fixed cosets, Lagrange polynomials, permutation cosets
Pk(cs) ==
    [fixed_cosets |-> <<Column(1), Column(4)>>,
     l0 |-> Column(90),
     l_last |-> Column(91),
     l_active_row |-> Column(92),
     permutation_cosets |-> [j \in 1 .. Len(cs.columns) |-> Column(95 + j)]]

\* advice_polys[p] and instance_polys[p], in coefficient form
AdvicePolys(p) == <<Coeffs(11 + 7 * p), Coeffs(17 + 7 * p)>>
InstancePolys(p) == <<Coeffs(29 + 5 * p)>>

\* the verifier challenge vector
Challenges == <<41>>

\* the fixed cosets and the advice and instance cosets of proof p
ProofTables(p) ==
    [fixed |-> Pk(EmptyCS).fixed_cosets,
     advice |-> [c \in 1 .. Len(AdvicePolys(p)) |-> CoeffToExtended(AdvicePolys(p)[c])],
     instance |-> [c \in 1 .. Len(InstancePolys(p)) |->
                      CoeffToExtended(InstancePolys(p)[c])],
     challenges |-> Challenges]

\* lookups[p][n]: the committed polynomials of lookup n of proof p.  The
\* witness "boundary" has product 1 and permuted input = permuted table.
CommittedLookup(wit, p, n) ==
    IF wit = "boundary"
    THEN [product_poly |-> [j \in 1 .. Pow2(K) |-> IF j = 1 THEN 1 ELSE 0],
          permuted_input_poly |-> Coeffs(60 + 3 * n + p),
          permuted_table_poly |-> Coeffs(60 + 3 * n + p)]
    ELSE [product_poly |-> Coeffs(50 + 3 * n + p),
          permuted_input_poly |-> Coeffs(60 + 3 * n + p),
          permuted_table_poly |-> Coeffs(70 + 3 * n + p)]

\* permutations[p].sets: nsets committed sets, each a product coset
CommittedSets(nsets, p) ==
    [i \in 1 .. nsets |-> [permutation_product_coset |-> Column(80 + 5 * i + p)]]

\* beta, gamma, theta and y
ChallengeChoices ==
    {[beta |-> 3, gamma |-> 5, theta |-> 7, y |-> 2],
     [beta |-> 0, gamma |-> 11, theta |-> 1, y |-> 1],
     [beta |-> 72, gamma |-> 1, theta |-> 0, y |-> 6]}

\* the tables of every proof of a batch
TablesOf[p \in 0 .. MaxProofs] == ProofTables(p)

\* the three extended cosets of lookup n of proof p (lines 530-538)
LookupCosets(wit, p, n) ==
    LET c == CommittedLookup(wit, p, n)
    IN  [product_coset |-> CoeffToExtended(c.product_poly),
         permuted_input_coset |-> CoeffToExtended(c.permuted_input_poly),
         permuted_table_coset |-> CoeffToExtended(c.permuted_table_poly)]

LookupCosetsOf[w \in {"generic", "boundary"}, p \in 0 .. MaxProofs, n \in 0 .. 1] ==
    LookupCosets(w, p, n)

\* cs.degree() - 2
ChunkLen(cs) == cs.degree - 2

\* slice::chunks(chunk_len): consecutive pieces, the last one possibly shorter
Chunks(s, chunk_len) ==
    [k \in 1 .. ((Len(s) + chunk_len - 1) \div chunk_len) |->
        SubSeq(s, (k - 1) * chunk_len + 1, Min(k * chunk_len, Len(s)))]

\* the number of sets the permutation argument commits for cs
CommittedChunking(cs) == Len(Chunks(cs.columns, ChunkLen(cs)))

\* the lengths of advice_polys, instance_polys, lookups and permutations
LensEqual(lens) ==
    /\ lens.advice = lens.instance
    /\ lens.instance = lens.lookups
    /\ lens.lookups = lens.permutations

EqualLens(n) == [advice |-> n, instance |-> n, lookups |-> n, permutations |-> n]

FirstChallenges == [beta |-> 3, gamma |-> 5, theta |-> 7, y |-> 2]

\* Inputs of one evaluate_h call.  Well-formed inputs vary freely; inputs
\* with unequal lengths, with a set count that differs from the committed
\* chunking, or with the accelerator selected vary one thing at a time.
WellFormedInputs ==
    {[cs |-> c, num_threads |-> t, lens |-> EqualLens(n),
      nsets |-> CommittedChunking(CS(c)), ch |-> h, wit |-> w, use_cuda |-> FALSE] :
        c \in CSNames, t \in 1 .. MaxThreads, n \in 0 .. MaxProofs,
        h \in ChallengeChoices, w \in {"generic", "boundary"}}

UnequalLengthInputs ==
    {[cs |-> "rich", num_threads |-> 1, lens |-> l,
      nsets |-> CommittedChunking(RichCS), ch |-> FirstChallenges,
      wit |-> "generic", use_cuda |-> FALSE] :
        l \in {x \in [advice : 0 .. MaxProofs, instance : 0 .. MaxProofs,
                      lookups : 0 .. MaxProofs, permutations : 0 .. MaxProofs] :
                  ~LensEqual(x)}}

MismatchedSetInputs ==
    {[cs |-> c, num_threads |-> t, lens |-> EqualLens(1),
      nsets |-> k, ch |-> FirstChallenges, wit |-> "generic", use_cuda |-> FALSE] :
        c \in {"rich", "trivial"}, t \in 1 .. 2, k \in 0 .. MaxSets}

AcceleratorInputs ==
    {[cs |-> c, num_threads |-> t, lens |-> EqualLens(n),
      nsets |-> CommittedChunking(CS(c)), ch |-> FirstChallenges,
      wit |-> "generic", use_cuda |-> TRUE] :
        c \in {"rich", "boundary", "empty"}, t \in 1 .. 2, n \in 1 .. MaxProofs}

Inputs ==
    WellFormedInputs \cup UnequalLengthInputs \cup MismatchedSetInputs
        \cup AcceleratorInputs

(***************************************************************************)
(* evaluate_h: chunking of the output vector.                              *)
(***************************************************************************)
\* (size + num_threads - 1) / num_threads
ChunkSize(n, num_threads) == (n + num_threads - 1) \div num_threads

\* ChunkStart counting the chunks from one
ChunkStartFromOne(thread_idx, chunk_size) == (thread_idx + 1) * chunk_size

\* thread_idx * chunk_size
ChunkStart(thread_idx, chunk_size) == thread_idx * chunk_size

\* values.chunks_mut(chunk_size): the offset and length of each piece
ChunksMut(n, chunk_size) ==
    [k \in 1 .. ((n + chunk_size - 1) \div chunk_size) |->
        [lo |-> (k - 1) * chunk_size,
         len |-> Min(chunk_size, n - (k - 1) * chunk_size)]]

\* parallelize: the chunk size and the start handed to each task
ParallelizeChunk(n, num_threads) == (n + num_threads - 1) \div num_threads
ParallelizeStart(chunk_num, chunk) == chunk_num * chunk

\* BetaTermAt that ignores the start of the chunk
BetaTermAtZero(start) == 1

\* extended_omega.pow_vartime(start)
BetaTermAt(start) == FPow(extended_omega, start)

\* one task per chunk of multicore::scope (custom gates, accelerator block 1)
ScopeWorkers(g, num_threads) ==
    LET chunk_size == ChunkSize(size, num_threads)
        chunks == ChunksMut(size, chunk_size)
    IN  [k \in 1 .. Len(chunks) |->
            [lo |-> chunks[k].lo, len |-> chunks[k].len,
             start |-> ChunkStart(k - 1, chunk_size), i |-> 0,
             beta_term |-> 0, eval_data |-> Instance(g)]]

\* one task per chunk of parallelize (permutation pass, lookup passes)
ParallelizeWorkers(g, num_threads) ==
    LET chunk == ParallelizeChunk(size, num_threads)
        chunks == ChunksMut(size, chunk)
    IN  [k \in 1 .. Len(chunks) |->
            [lo |-> chunks[k].lo, len |-> chunks[k].len,
             start |-> ParallelizeStart(k - 1, chunk), i |-> 0,
             beta_term |-> BetaTermAt(ParallelizeStart(k - 1, chunk)),
             eval_data |-> Instance(g)]]

\* ScopeJoined that returns as soon as one task has finished
ScopeJoinedAny(ws) == \E w \in 1 .. Len(ws) : ws[w].i = ws[w].len

\* multicore::scope returns when every task it spawned has finished
ScopeJoined(ws) == \A w \in 1 .. Len(ws) : ws[w].i = ws[w].len

\* the zip of advice, instance, lookups and permutations stops at the shortest
NumZip(lens) ==
    Min(Min(lens.advice, lens.instance), Min(lens.lookups, lens.permutations))

(***************************************************************************)
(* evaluate_h: what a worker does at one row of each pass.                 *)
(***************************************************************************)
\* value * y + term
Acc(value, y, term) == FAdd(FMul(value, y), term)

\* the coset of a permutation column, by column type
ColumnValues(column, tabs) ==
    CASE column[1] = "Advice" -> tabs.advice[column[2] + 1]
      [] column[1] = "Fixed" -> tabs.fixed[column[2] + 1]
      [] column[1] = "Instance" -> tabs.instance[column[2] + 1]

\* left: z_i(omega X) prod_j (p(X) + beta s_j(X) + gamma) over one chunk
PermLeft(set, columns, cosets, idx, r_next, tabs, ch) ==
    LET L[j \in 0 .. Min(Len(columns), Len(cosets))] ==
            IF j = 0 THEN set.permutation_product_coset[r_next + 1]
            ELSE FMul(L[j - 1],
                      FAdd(FAdd(ColumnValues(columns[j], tabs)[idx + 1],
                                FMul(ch.beta, cosets[j][idx + 1])),
                           ch.gamma))
    IN  L[Min(Len(columns), Len(cosets))]

\* PermRight without current_delta *= DELTA
PermRightNoAdvance(set, columns, idx, current_delta, tabs, ch) ==
    LET R[j \in 0 .. Len(columns)] ==
            IF j = 0
            THEN [right |-> set.permutation_product_coset[idx + 1],
                  current_delta |-> current_delta,
                  deltas |-> <<>>]
            ELSE LET prev == R[j - 1]
                 IN  [right |-> FMul(prev.right,
                                     FAdd(FAdd(ColumnValues(columns[j], tabs)[idx + 1],
                                               prev.current_delta),
                                          ch.gamma)),
                      current_delta |-> prev.current_delta,
                      deltas |-> Append(prev.deltas, prev.current_delta)]
    IN  R[Len(columns)]

\* right: z_i(X) prod_j (p(X) + current_delta + gamma) over one chunk, the
\* current_delta the chunk leaves, and the current_delta each column was
\* multiplied in with
PermRight(set, columns, idx, current_delta, tabs, ch) ==
    LET R[j \in 0 .. Len(columns)] ==
            IF j = 0
            THEN [right |-> set.permutation_product_coset[idx + 1],
                  current_delta |-> current_delta,
                  deltas |-> <<>>]
            ELSE LET prev == R[j - 1]
                 IN  [right |-> FMul(prev.right,
                                     FAdd(FAdd(ColumnValues(columns[j], tabs)[idx + 1],
                                               prev.current_delta),
                                          ch.gamma)),
                      current_delta |-> FMul(prev.current_delta, DELTA),
                      deltas |-> Append(prev.deltas, prev.current_delta)]
    IN  R[Len(columns)]

\* the permutation pass at row idx (lines 449-511): the new value, and the
\* current_delta of every column the product loop went through
PermRowRun(value, idx, beta_term, sets, cs, pk, tabs, ch) ==
    LET last_rotation == 0 - (cs.blinding_factors + 1)
        chunk_len == ChunkLen(cs)
        delta_start == FMul(ch.beta, ZETA)
        first_set == sets[1]
        last_set == sets[Len(sets)]
        r_next == get_rotation_idx(idx, 1, rot_scale, size)
        r_last == get_rotation_idx(idx, last_rotation, rot_scale, size)
        l0 == pk.l0[idx + 1]
        v1 == Acc(value, ch.y,
                  FMul(FSub(1, first_set.permutation_product_coset[idx + 1]), l0))
        zl == last_set.permutation_product_coset[idx + 1]
        v2 == Acc(v1, ch.y, FMul(FSub(FMul(zl, zl), zl), pk.l_last[idx + 1]))
        St[k \in 1 .. Len(sets)] ==
            IF k = 1 THEN v2
            ELSE Acc(St[k - 1], ch.y,
                     FMul(FSub(sets[k].permutation_product_coset[idx + 1],
                               sets[k - 1].permutation_product_coset[r_last + 1]),
                          l0))
        column_chunks == Chunks(cs.columns, chunk_len)
        coset_chunks == Chunks(pk.permutation_cosets, chunk_len)
        nzip == Min(Len(sets), Min(Len(column_chunks), Len(coset_chunks)))
        Pr[c \in 0 .. nzip] ==
            IF c = 0
            THEN [value |-> St[Len(sets)], current_delta |-> FMul(delta_start, beta_term),
                  deltas |-> <<>>]
            ELSE LET before == Pr[c - 1]
                     left == PermLeft(sets[c], column_chunks[c], coset_chunks[c],
                                      idx, r_next, tabs, ch)
                     r == PermRight(sets[c], column_chunks[c], idx,
                                    before.current_delta, tabs, ch)
                 IN  [value |-> Acc(before.value, ch.y,
                                    FMul(FSub(left, r.right), pk.l_active_row[idx + 1])),
                      current_delta |-> r.current_delta,
                      deltas |-> before.deltas \o r.deltas]
    IN  Pr[nzip]

\* the permutation pass at row idx: the new value
PermRow(value, idx, beta_term, sets, cs, pk, tabs, ch) ==
    PermRowRun(value, idx, beta_term, sets, cs, pk, tabs, ch).value

\* LookupTerms with the last two identities accumulated in the other order
LookupTermsSwapped(idx, table_value, a_minus_s, r_next, r_prev, lc, pk, ch) ==
    LET z == lc.product_coset
        a == lc.permuted_input_coset
        t == lc.permuted_table_coset
    IN  <<FMul(FSub(1, z[idx + 1]), pk.l0[idx + 1]),
          FMul(FSub(FMul(z[idx + 1], z[idx + 1]), z[idx + 1]), pk.l_last[idx + 1]),
          FMul(FSub(FMul(FMul(z[r_next + 1], FAdd(a[idx + 1], ch.beta)),
                         FAdd(t[idx + 1], ch.gamma)),
                    FMul(z[idx + 1], table_value)),
               pk.l_active_row[idx + 1]),
          FMul(FMul(a_minus_s, FSub(a[idx + 1], a[r_prev + 1])),
               pk.l_active_row[idx + 1]),
          FMul(a_minus_s, pk.l0[idx + 1])>>

\* the five lookup identities at row idx, in the order they are accumulated
LookupTerms(idx, table_value, a_minus_s, r_next, r_prev, lc, pk, ch) ==
    LET z == lc.product_coset
        a == lc.permuted_input_coset
        t == lc.permuted_table_coset
    IN  <<FMul(FSub(1, z[idx + 1]), pk.l0[idx + 1]),
          FMul(FSub(FMul(z[idx + 1], z[idx + 1]), z[idx + 1]), pk.l_last[idx + 1]),
          FMul(FSub(FMul(FMul(z[r_next + 1], FAdd(a[idx + 1], ch.beta)),
                         FAdd(t[idx + 1], ch.gamma)),
                    FMul(z[idx + 1], table_value)),
               pk.l_active_row[idx + 1]),
          FMul(a_minus_s, pk.l0[idx + 1]),
          FMul(FMul(a_minus_s, FSub(a[idx + 1], a[r_prev + 1])),
               pk.l_active_row[idx + 1])>>

\* AccAll that skips the terms that are zero
AccAllSkipZero(value, y, terms) ==
    LET A[k \in 0 .. Len(terms)] ==
            IF k = 0 THEN value
            ELSE IF terms[k] = 0 THEN A[k - 1]
            ELSE Acc(A[k - 1], y, terms[k])
    IN  A[Len(terms)]

\* value = value * y + term, for each term in order
AccAll(value, y, terms) ==
    LET A[k \in 0 .. Len(terms)] ==
            IF k = 0 THEN value ELSE Acc(A[k - 1], y, terms[k])
    IN  A[Len(terms)]

\* the lookup pass at row idx (lines 563-595): the new value
LookupRow(value, idx, table_value, lc, pk, ch) ==
    LET r_next == get_rotation_idx(idx, 1, rot_scale, size)
        r_prev == get_rotation_idx(idx, -1, rot_scale, size)
        a_minus_s == FSub(lc.permuted_input_coset[idx + 1],
                          lc.permuted_table_coset[idx + 1])
    IN  AccAll(value, ch.y,
               LookupTerms(idx, table_value, a_minus_s, r_next, r_prev, lc, pk, ch))

\* block 1 of the accelerator path at row idx (lines 830-857)
CombinedRow(idx, table_value, lc) ==
    <<table_value,
      FSub(lc.permuted_input_coset[idx + 1], lc.permuted_table_coset[idx + 1]),
      get_rotation_idx(idx, 1, rot_scale, size),
      get_rotation_idx(idx, -1, rot_scale, size)>>

\* the kernel compute_evaluate_h_lookups_codeblock: every lookup, every row
KernelValues(vals, comb, nlookups, wit, p, pk, ch) ==
    [pos \in 1 .. size |->
        LET A[n \in 0 .. nlookups] ==
                IF n = 0 THEN vals[pos]
                ELSE AccAll(A[n - 1], ch.y,
                            LookupTerms(pos - 1, comb[n][pos][1], comb[n][pos][2],
                                        comb[n][pos][3], comb[n][pos][4],
                                        LookupCosetsOf[wit, p, n - 1], pk, ch))
        IN  A[nlookups]]

(***************************************************************************)
(* State.                                                                  *)
(***************************************************************************)
VARIABLES
    expr,      \* the expression handed to add_expression
    graph,     \* the GraphEvaluator under construction
    result,    \* what add_expression returned: [vs, ok]
    data,      \* the EvaluationData of the row evaluator
    row,       \* the row of the last GraphEvaluator::evaluate call, or -1
    got,       \* the value of result.vs after that call
    cpc        \* "start", "compiled", "aborted", "evaluated"; "idle" in evaluate_h runs

VARIABLES
    inp,       \* the inputs of the evaluate_h call
    ev,        \* the Evaluator built by Evaluator::new for inp.cs
    values,    \* the output vector
    proof,     \* index of the proof the loop is at
    pass,      \* "gates", "perm", "lookup", "block1" or "idle"
    lk,        \* index n of the lookup of the current lookup pass
    workers,   \* the tasks of the current pass
    combined,  \* combined_data_in of the accelerator path
    device,    \* the accelerator's copy of values
    pc,        \* "entry", "loop", "run", "cu_kernel", "driver", "alloc",
               \* "launch", "copy", "done"; "idle" in compiler runs
    snapshot,  \* history: values when the current pass started
    applied    \* history: per row, the passes accumulated into values

VARIABLES
    rot_args,  \* the arguments of a get_rotation_idx call: [idx, rot,
               \* rot_scale, isize, from]; from is the index the previous
               \* rotation started at, -1 when there was none
    rot_ret,   \* what the call returned
    rot_pc     \* "call", "returned", "panicked"; "idle" in the other runs

VARIABLES
    argument,  \* the lookup argument Evaluator::new builds a graph for
    lgraph,    \* the graph of the lookup
    ldata,     \* the EvaluationData of the row evaluator
    lrow,      \* the row the lookup graph was last evaluated at
    lvalue,    \* what GraphEvaluator::evaluate returned at that row
    lpc        \* "new", "built", "evaluated"; "idle" in the other runs

VARIABLES
    ge,        \* a GraphEvaluator its owner calls the add_ methods on
    ge_before, \* history: ge when the last call was made
    ge_call,   \* the last call: <<method, argument>>
    ge_ret,    \* what the last call returned
    ge_calls   \* the number of calls made

cvars == <<expr, graph, result, data, row, got, cpc>>
hvars == <<inp, ev, values, proof, pass, lk, workers, combined, device, pc,
           snapshot, applied>>
rvars == <<rot_args, rot_ret, rot_pc>>
lvars == <<argument, lgraph, ldata, lrow, lvalue, lpc>>
gvars == <<ge, ge_before, ge_call, ge_ret, ge_calls>>
vars == <<cvars, hvars, rvars, lvars, gvars>>
\* what the actions of one run leave alone: the variables of the other runs
notC == <<hvars, rvars, lvars, gvars>>
notH == <<cvars, rvars, lvars, gvars>>
notR == <<cvars, hvars, lvars, gvars>>
notL == <<cvars, hvars, rvars, gvars>>
notG == <<cvars, hvars, rvars, lvars>>

\* an output vector that starts at one instead of zero
OnesVector == [i \in 1 .. size |-> 1]

ZeroVector == [i \in 1 .. size |-> 0]

(***************************************************************************)
(* The compiler run: add_expression on a fresh graph, then row evaluation. *)
(***************************************************************************)
\* the tables and challenges the compiled graph is evaluated on
TablesOfCompile == ProofTables(0)
ChallengesOfCompile == FirstChallenges

IdleRotation ==
    /\ rot_args = <<>>
    /\ rot_ret = -1
    /\ rot_pc = "idle"

IdleLookup ==
    /\ argument = <<>>
    /\ lgraph = <<>>
    /\ ldata = <<>>
    /\ lrow = -1
    /\ lvalue = 0
    /\ lpc = "idle"

IdleGraph ==
    /\ ge = <<>>
    /\ ge_before = <<>>
    /\ ge_call = <<>>
    /\ ge_ret = <<>>
    /\ ge_calls = 0

IdleH ==
    /\ inp = <<>>
    /\ ev = <<>>
    /\ values = <<>>
    /\ proof = 0
    /\ pass = "idle"
    /\ lk = 0
    /\ workers = <<>>
    /\ combined = <<>>
    /\ device = <<>>
    /\ pc = "idle"
    /\ snapshot = <<>>
    /\ applied = <<>>

InitCompile ==
    /\ IsExpr(expr)
    /\ graph = DefaultGraph
    /\ result = [vs |-> <<"None">>, ok |-> TRUE]
    /\ data = Instance(DefaultGraph)
    /\ row = -1
    /\ got = 0
    /\ cpc = "start"
    /\ IdleH
    /\ IdleRotation
    /\ IdleLookup
    /\ IdleGraph

\* add_expression(expr) on the fresh graph, then GraphEvaluator::instance
Compile ==
    /\ cpc = "start"
    /\ LET r == AddExpression(graph, expr)
       IN  /\ graph' = r.g
           /\ result' = [vs |-> r.vs, ok |-> r.ok]
           /\ data' = Instance(r.g)
           /\ cpc' = IF r.ok THEN "compiled" ELSE "aborted"
    /\ UNCHANGED <<expr, row, got>>
    /\ UNCHANGED notC

\* GraphEvaluator::evaluate at row idx on the scratch the previous call left,
\* then the value of the compiled ValueSource
EvaluateAt(idx) ==
    LET e == Evaluate(graph, data, TablesOfCompile, ChallengesOfCompile,
                      0, idx, rot_scale, size)
    IN  /\ data' = e.data
        /\ row' = idx
        /\ got' = Get(result.vs, e.data.rotations, graph.constants,
                      e.data.intermediates, TablesOfCompile,
                      ChallengesOfCompile, 0)
        /\ cpc' = "evaluated"
        /\ UNCHANGED <<expr, graph, result>>
        /\ UNCHANGED notC

\* a worker's first row: idx = start, any row of the domain
EvaluateFirstRow ==
    /\ cpc = "compiled"
    /\ \E idx \in Rows : EvaluateAt(idx)

\* a worker's following rows: idx = start + i, on the same scratch
EvaluateNextRow ==
    /\ cpc = "evaluated"
    /\ row + 1 < size
    /\ EvaluateAt(row + 1)

NextCompile == Compile \/ EvaluateFirstRow \/ EvaluateNextRow

SpecCompile == InitCompile /\ [][NextCompile]_vars

(***************************************************************************)
(* evaluate_h.                                                              *)
(***************************************************************************)
IdleCompile ==
    /\ expr = <<"Constant", 0>>
    /\ graph = DefaultGraph
    /\ result = [vs |-> <<"None">>, ok |-> TRUE]
    /\ data = Instance(DefaultGraph)
    /\ row = -1
    /\ got = 0
    /\ cpc = "idle"

Init ==
    /\ inp \in Inputs
    /\ ev = NewEvaluator(CS(inp.cs))
    /\ values = ZeroVector
    /\ proof = 0
    /\ pass = "idle"
    /\ lk = 0
    /\ workers = <<>>
    /\ combined = <<>>
    /\ device = ZeroVector
    /\ pc = "entry"
    /\ snapshot = ZeroVector
    /\ applied = [i \in 1 .. size |-> <<>>]
    /\ IdleCompile
    /\ IdleRotation
    /\ IdleLookup
    /\ IdleGraph

\* entry of evaluate_h_cpu_only / evaluate_h_with_cuda: the cosets are
\* computed and values = domain.empty_extended(); nothing is checked
Enter ==
    /\ pc = "entry"
    /\ values' = ZeroVector
    /\ proof' = 0
    /\ pc' = "loop"
    /\ UNCHANGED <<inp, ev, pass, lk, workers, combined, device, snapshot, applied>>
    /\ UNCHANGED notH

\* the loop over the zipped proofs: the next proof starts with the custom gates
StartProof ==
    /\ pc = "loop"
    /\ proof < NumZip(inp.lens)
    /\ workers' = ScopeWorkers(ev.custom_gates, inp.num_threads)
    /\ pass' = "gates"
    /\ pc' = "run"
    /\ snapshot' = values
    /\ UNCHANGED <<inp, ev, values, proof, lk, combined, device, applied>>
    /\ UNCHANGED notH

\* the zip is exhausted: values is returned
Return ==
    /\ pc = "loop"
    /\ proof >= NumZip(inp.lens)
    /\ pc' = "done"
    /\ UNCHANGED <<inp, ev, values, proof, pass, lk, workers, combined, device,
                   snapshot, applied>>
    /\ UNCHANGED notH

\* worker w writes one element of its slice, or of combined_data_in[lk]
WorkerWrites(w, value, beta_term, eval_data) ==
    /\ values' = [values EXCEPT ![workers[w].lo + workers[w].i + 1] = value]
    /\ workers' = [workers EXCEPT ![w] =
                      [@ EXCEPT !.i = @ + 1, !.beta_term = beta_term,
                                !.eval_data = eval_data]]
    /\ applied' = [applied EXCEPT ![workers[w].lo + workers[w].i + 1] =
                      Append(@, <<proof, pass, lk>>)]
    /\ UNCHANGED <<inp, ev, proof, pass, lk, combined, device, pc, snapshot>>
    /\ UNCHANGED notH

\* a task of the custom-gate pass processes its next row (lines 412-429)
GatesStep(w) ==
    /\ pc = "run" /\ pass = "gates"
    /\ workers[w].i < workers[w].len
    /\ LET idx == workers[w].start + workers[w].i
           e == Evaluate(ev.custom_gates, workers[w].eval_data, TablesOf[proof],
                         inp.ch, values[workers[w].lo + workers[w].i + 1],
                         idx, rot_scale, size)
       IN  WorkerWrites(w, e.value, workers[w].beta_term, e.data)

\* a task of the permutation pass processes its next row (lines 448-512)
PermStep(w) ==
    /\ pc = "run" /\ pass = "perm"
    /\ workers[w].i < workers[w].len
    /\ LET idx == workers[w].start + workers[w].i
           v == PermRow(values[workers[w].lo + workers[w].i + 1], idx,
                        workers[w].beta_term, CommittedSets(inp.nsets, proof),
                        CS(inp.cs), Pk(CS(inp.cs)), TablesOf[proof], inp.ch)
       IN  WorkerWrites(w, v, FMul(workers[w].beta_term, extended_omega),
                        workers[w].eval_data)

\* a task of the pass of lookup lk processes its next row (lines 544-596)
LookupStep(w) ==
    /\ pc = "run" /\ pass = "lookup"
    /\ workers[w].i < workers[w].len
    /\ LET idx == workers[w].start + workers[w].i
           e == Evaluate(ev.lookups[lk + 1], workers[w].eval_data, TablesOf[proof],
                         inp.ch, 0, idx, rot_scale, size)
           v == LookupRow(values[workers[w].lo + workers[w].i + 1], idx, e.value,
                          LookupCosetsOf[inp.wit, proof, lk], Pk(CS(inp.cs)), inp.ch)
       IN  WorkerWrites(w, v, workers[w].beta_term, e.data)

\* a task of block 1 of the accelerator path fills combined_data_in[lk]
Block1Step(w) ==
    /\ pc = "run" /\ pass = "block1"
    /\ workers[w].i < workers[w].len
    /\ LET idx == workers[w].start + workers[w].i
           e == Evaluate(ev.lookups[lk + 1], workers[w].eval_data, TablesOf[proof],
                         inp.ch, 0, idx, rot_scale, size)
       IN  /\ combined' = [combined EXCEPT ![lk + 1][workers[w].lo + workers[w].i + 1] =
                              CombinedRow(idx, e.value,
                                          LookupCosetsOf[inp.wit, proof, lk])]
           /\ workers' = [workers EXCEPT ![w] =
                             [@ EXCEPT !.i = @ + 1, !.eval_data = e.data]]
    /\ UNCHANGED <<inp, ev, values, proof, pass, lk, device, pc, snapshot, applied>>
    /\ UNCHANGED notH

\* the head of the CPU loop over the lookups, at index n: the pass of lookup
\* n is spawned, or the proof is finished
BeginLookup(n) ==
    IF n < Len(ev.lookups)
    THEN /\ workers' = ParallelizeWorkers(ev.lookups[n + 1], inp.num_threads)
         /\ pass' = "lookup" /\ lk' = n /\ pc' = "run" /\ proof' = proof
    ELSE /\ workers' = <<>>
         /\ pass' = "idle" /\ lk' = 0 /\ pc' = "loop" /\ proof' = proof + 1

\* the head of the accelerator loop over the lookups (block 1), at index n
BeginBlock1(n) ==
    IF n < Len(ev.lookups)
    THEN /\ workers' = ScopeWorkers(ev.lookups[n + 1], inp.num_threads)
         /\ pass' = "block1" /\ lk' = n /\ pc' = "run" /\ proof' = proof
    ELSE /\ workers' = <<>>
         /\ pass' = "idle" /\ lk' = 0 /\ pc' = "cu_kernel" /\ proof' = proof

\* after the permutation block: the lookups, on the CPU or on the accelerator
ToLookups ==
    IF inp.use_cuda
    THEN /\ combined' = [n \in 1 .. Len(ev.lookups) |->
                            [i \in 1 .. size |-> <<0, 0, 0, 0>>]]
         /\ BeginBlock1(0)
    ELSE /\ combined' = combined
         /\ BeginLookup(0)

\* the scope of the custom gates returns; the permutation pass is spawned
\* when the proof has permutation sets
JoinGates ==
    /\ pc = "run" /\ pass = "gates"
    /\ ScopeJoined(workers)
    /\ IF inp.nsets > 0
       THEN /\ workers' = ParallelizeWorkers(DefaultGraph, inp.num_threads)
            /\ pass' = "perm" /\ lk' = 0 /\ pc' = "run" /\ proof' = proof
            /\ combined' = combined
       ELSE ToLookups
    /\ snapshot' = values
    /\ UNCHANGED <<inp, ev, values, device, applied>>
    /\ UNCHANGED notH

\* parallelize of the permutation pass returns
JoinPerm ==
    /\ pc = "run" /\ pass = "perm"
    /\ ScopeJoined(workers)
    /\ ToLookups
    /\ snapshot' = values
    /\ UNCHANGED <<inp, ev, values, device, applied>>
    /\ UNCHANGED notH

\* parallelize of the pass of lookup lk returns
JoinLookup ==
    /\ pc = "run" /\ pass = "lookup"
    /\ ScopeJoined(workers)
    /\ BeginLookup(lk + 1)
    /\ snapshot' = values
    /\ UNCHANGED <<inp, ev, values, combined, device, applied>>
    /\ UNCHANGED notH

\* the scope of block 1 of lookup lk returns
JoinBlock1 ==
    /\ pc = "run" /\ pass = "block1"
    /\ ScopeJoined(workers)
    /\ BeginBlock1(lk + 1)
    /\ snapshot' = values
    /\ UNCHANGED <<inp, ev, values, combined, device, applied>>
    /\ UNCHANGED notH

\* an accelerator step that fails: the error is printed and values returned
ReturnOnError ==
    /\ pc' = "done"
    /\ UNCHANGED <<inp, ev, values, proof, pass, lk, workers, combined, device,
                   snapshot, applied>>
    /\ UNCHANGED notH

\* an accelerator step that succeeds and leaves the host state alone
Proceed(next) ==
    /\ pc' = next
    /\ UNCHANGED <<inp, ev, values, proof, pass, lk, workers, combined, device,
                   snapshot, applied>>
    /\ UNCHANGED notH

\* env::var("CU_KERNEL") (lines 907-918)
CuKernelVar ==
    /\ pc = "cu_kernel"
    /\ \E found \in BOOLEAN : IF found THEN Proceed("driver") ELSE ReturnOnError

\* DriverInterface::new and error_occured (lines 920-927)
DriverNew ==
    /\ pc = "driver"
    /\ \E ok \in BOOLEAN : IF ok THEN Proceed("alloc") ELSE ReturnOnError

\* add_allocations_2 (lines 931-951): values is copied to the accelerator
AddAllocations ==
    /\ pc = "alloc"
    /\ \E ok \in BOOLEAN :
          IF ok
          THEN /\ device' = values
               /\ pc' = "launch"
               /\ UNCHANGED <<inp, ev, values, proof, pass, lk, workers, combined,
                              snapshot, applied>>
               /\ UNCHANGED notH
          ELSE ReturnOnError

\* launch_kernel (lines 953-975)
LaunchKernel ==
    /\ pc = "launch"
    /\ \E ok \in BOOLEAN :
          IF ok
          THEN /\ device' = KernelValues(device, combined, Len(ev.lookups), inp.wit,
                                         proof, Pk(CS(inp.cs)), inp.ch)
               /\ pc' = "copy"
               /\ UNCHANGED <<inp, ev, values, proof, pass, lk, workers, combined,
                              snapshot, applied>>
               /\ UNCHANGED notH
          ELSE ReturnOnError

\* the passes the kernel accumulated into every row
KernelPasses(p, nlookups) == [n \in 1 .. nlookups |-> <<p, "lookup", n - 1>>]

\* copy_vec_to_host (lines 977-983), then the next proof
CopyToHost ==
    /\ pc = "copy"
    /\ \E ok \in BOOLEAN :
          IF ok
          THEN /\ values' = device
               /\ applied' = [i \in 1 .. size |->
                                 applied[i] \o KernelPasses(proof, Len(ev.lookups))]
               /\ proof' = proof + 1
               /\ pc' = "loop"
               /\ UNCHANGED <<inp, ev, pass, lk, workers, combined, device, snapshot>>
               /\ UNCHANGED notH
          ELSE ReturnOnError

Next ==
    \/ Enter
    \/ StartProof
    \/ Return
    \/ \E w \in 1 .. Len(workers) : GatesStep(w)
    \/ \E w \in 1 .. Len(workers) : PermStep(w)
    \/ \E w \in 1 .. Len(workers) : LookupStep(w)
    \/ \E w \in 1 .. Len(workers) : Block1Step(w)
    \/ JoinGates
    \/ JoinPerm
    \/ JoinLookup
    \/ JoinBlock1
    \/ CuKernelVar
    \/ DriverNew
    \/ AddAllocations
    \/ LaunchKernel
    \/ CopyToHost

Spec == Init /\ [][Next]_vars

(***************************************************************************)
(* get_rotation_idx on its own: any index of a power-of-two domain, any    *)
(* i32 rotation, any rot_scale up to MaxRotScale.  An overflow of the i32  *)
(* product or sum panics in a build with overflow checks and wraps in a    *)
(* build without them.                                                     *)
(***************************************************************************)
RotationArgs ==
    UNION {[idx : 0 .. (Pow2(k) - 1), rot : IntMin .. IntMax,
            rot_scale : 1 .. MaxRotScale, isize : {Pow2(k)}, from : {-1}] :
           k \in 1 .. ExtendedK}

InitRotation ==
    /\ rot_args \in RotationArgs
    /\ rot_ret = -1
    /\ rot_pc = "call"
    /\ IdleCompile
    /\ IdleH
    /\ IdleLookup
    /\ IdleGraph

\* the call returns
Rotate ==
    /\ rot_pc = "call"
    /\ rot_ret' = get_rotation_idx(rot_args.idx, rot_args.rot,
                                   rot_args.rot_scale, rot_args.isize)
    /\ rot_pc' = "returned"
    /\ UNCHANGED <<rot_args, notR>>

\* the call panics: "attempt to multiply (add) with overflow"
RotatePanics ==
    /\ rot_pc = "call"
    /\ RotationOverflows(rot_args.idx, rot_args.rot, rot_args.rot_scale)
    /\ rot_pc' = "panicked"
    /\ UNCHANGED <<rot_args, rot_ret, notR>>

\* the caller rotates the returned index back by -rot
RotateBack ==
    /\ rot_pc = "returned"
    /\ rot_args.from = -1
    /\ rot_args.rot # IntMin
    /\ rot_args' = [rot_args EXCEPT !.idx = rot_ret, !.rot = 0 - rot_args.rot,
                                    !.from = rot_args.idx]
    /\ rot_pc' = "call"
    /\ UNCHANGED <<rot_ret, notR>>

NextRotation == Rotate \/ RotatePanics \/ RotateBack

SpecRotation == InitRotation /\ [][NextRotation]_vars

(***************************************************************************)
(* The lookup loop of Evaluator::new on its own: one lookup argument with  *)
(* any input and table expression lists of up to MaxListLen expressions,   *)
(* then the evaluation of its graph row by row.                            *)
(***************************************************************************)
LookupExprs ==
    {<<"Constant", 0>>, <<"Advice", 1, 1>>,
     <<"Product", <<"Advice", 1, 1>>, <<"Fixed", 0, -1>>>>,
     <<"Sum", <<"Challenge", 0>>, <<"Negated", <<"Advice", 1, 1>>>>>>}

ExprLists == UNION {[1 .. n -> LookupExprs] : n \in 0 .. MaxListLen}

InitLookup ==
    /\ argument \in [input_expressions : ExprLists, table_expressions : ExprLists]
    /\ lgraph = DefaultGraph
    /\ ldata = Instance(DefaultGraph)
    /\ lrow = -1
    /\ lvalue = 0
    /\ lpc = "new"
    /\ IdleCompile
    /\ IdleH
    /\ IdleRotation
    /\ IdleGraph

\* one turn of the loop over cs.lookups, then GraphEvaluator::instance
BuildLookup ==
    /\ lpc = "new"
    /\ lgraph' = LookupGraph(argument)
    /\ ldata' = Instance(LookupGraph(argument))
    /\ lpc' = "built"
    /\ UNCHANGED <<argument, lrow, lvalue, notL>>

LookupEvaluateAt(idx) ==
    LET e == Evaluate(lgraph, ldata, TablesOfCompile, ChallengesOfCompile,
                      0, idx, rot_scale, size)
    IN  /\ ldata' = e.data
        /\ lrow' = idx
        /\ lvalue' = e.value
        /\ lpc' = "evaluated"
        /\ UNCHANGED <<argument, lgraph, notL>>

\* a worker's first row
LookupEvaluateFirstRow ==
    /\ lpc = "built"
    /\ \E idx \in Rows : LookupEvaluateAt(idx)

\* a worker's following rows, on the same scratch
LookupEvaluateNextRow ==
    /\ lpc = "evaluated"
    /\ lrow + 1 < size
    /\ LookupEvaluateAt(lrow + 1)

NextLookup == BuildLookup \/ LookupEvaluateFirstRow \/ LookupEvaluateNextRow

SpecLookup == InitLookup /\ [][NextLookup]_vars

(***************************************************************************)
(* The graph methods on their own: up to MaxCalls calls of add_rotation,   *)
(* add_constant, add_calculation and add_expression on one GraphEvaluator, *)
(* in any order.  The methods are private: the operands of a calculation   *)
(* handed to add_calculation are ValueSources the graph can have returned  *)
(* or ValueSource::Beta, which carries no index.                           *)
(***************************************************************************)
GraphRotations == {-1, 1}
GraphConstants == {2 % P, 3 % P, (0 - 1) % P}
GraphExprs ==
    {<<"Advice", 1, 1>>, <<"Constant", 3>>,
     <<"Advice", 1, -1>>, <<"Instance", 0, 1>>, <<"Challenge", 0>>,
     <<"Sum", <<"Advice", 1, 1>>, <<"Negated", <<"Fixed", 0, -1>>>>>>,
     <<"Product", <<"Advice", 1, 1>>, <<"Advice", 1, 1>>>>,
     <<"Scaled", <<"Fixed", 0, -1>>, 3>>}

\* the ValueSources the graph returned last: the two newest intermediates
Returned(g) ==
    {<<"Intermediate", t>> :
        t \in {u \in {g.num_intermediates - 2, g.num_intermediates - 1} : u >= 0}}

\* ValueSources the owner of g builds a calculation from
Operands(g) == {<<"Beta">>} \cup Returned(g)

\* calculations the owner of g can hand to add_calculation
Calculations(g) ==
    {<<"Add", a, b>> : a \in Operands(g), b \in Operands(g)}
        \cup {<<"Negate", a>> : a \in Operands(g)}
        \cup {<<"Horner", <<"Constant", 0>>, <<a, b>>, <<"Theta">>>> :
                 a \in Operands(g), b \in Returned(g)}

InitGraph ==
    /\ ge = DefaultGraph
    /\ ge_before = DefaultGraph
    /\ ge_call = <<"default">>
    /\ ge_ret = <<>>
    /\ ge_calls = 0
    /\ IdleCompile
    /\ IdleH
    /\ IdleRotation
    /\ IdleLookup

\* the bookkeeping of one call
Called(method, arg, g, ret) ==
    /\ ge_calls < MaxCalls
    /\ ge' = g
    /\ ge_before' = ge
    /\ ge_call' = <<method, arg>>
    /\ ge_ret' = ret
    /\ ge_calls' = ge_calls + 1
    /\ UNCHANGED notG

CallAddRotation ==
    \E rotation \in GraphRotations :
        LET r == AddRotation(ge, rotation)
        IN  Called("add_rotation", rotation, r.g, r.idx)

CallAddConstant ==
    \E constant \in GraphConstants :
        LET r == AddConstant(ge, constant)
        IN  Called("add_constant", constant, r.g, r.vs)

CallAddCalculation ==
    \E calculation \in Calculations(ge) :
        LET r == AddCalculation(ge, calculation)
        IN  Called("add_calculation", calculation, r.g, r.vs)

CallAddExpression ==
    \E e \in GraphExprs :
        LET r == AddExpression(ge, e)
        IN  Called("add_expression", e, r.g, r.vs)

NextGraph ==
    CallAddRotation \/ CallAddConstant \/ CallAddCalculation \/ CallAddExpression

SpecGraph == InitGraph /\ [][NextGraph]_vars

\* no Selector leaf anywhere in e
RECURSIVE SelectorFree(_)
SelectorFree(e) ==
    CASE e[1] = "Selector" -> FALSE
      [] e[1] \in {"Negated", "Scaled"} -> SelectorFree(e[2])
      [] e[1] \in {"Sum", "Product"} -> SelectorFree(e[2]) /\ SelectorFree(e[3])
      [] OTHER -> TRUE

(***************************************************************************)
(* C1: for every selector-free expression and every row, the value of the  *)
(* ValueSource add_expression returned, read after GraphEvaluator::evaluate *)
(* ran at that row on the freshly compiled graph, is the value the simple   *)
(* recursive evaluator computes for the expression at that row.             *)
(***************************************************************************)
CseCorrect ==
    (cpc = "evaluated" /\ SelectorFree(expr)) =>
        got = ExprEvaluate(expr, row, rot_scale, size, TablesOfCompile)

\* a row of a Sum whose right operand is Negated: a Sub was emitted, the
\* rotated reads wrap around the domain, and the value is not zero
CseWitness ==
    /\ cpc = "evaluated"
    /\ row = size - 1
    /\ expr[1] = "Sum"
    /\ expr[3][1] = "Negated"
    /\ \E c \in 1 .. Len(graph.calculations) :
          graph.calculations[c].calculation[1] = "Sub"
    /\ got # 0

(***************************************************************************)
(* The identity residuals of one row, written out from the identities.     *)
(***************************************************************************)
\* theta^(m-1) e_0 + ... + e_(m-1) at row idx
Compression(exprs, idx, tabs, theta) ==
    LET C[k \in 0 .. Len(exprs)] ==
            IF k = 0 THEN 0
            ELSE (C[k - 1] * theta
                    + ExprEvaluate(exprs[k], idx, rot_scale, size, tabs)) % P
    IN  C[Len(exprs)]

\* the gate polynomials in declaration order
GateResiduals(cs, idx, tabs) ==
    LET polys == GatePolynomials(cs.gates, Len(cs.gates))
    IN  [k \in 1 .. Len(polys) |-> ExprEvaluate(polys[k], idx, rot_scale, size, tabs)]

\* the product term of set i over its chunk of columns: column j of the
\* chunk is column (i - 1) * chunk_len + j of the argument, whose right
\* factor carries beta * ZETA * omega^idx * DELTA^((i - 1) * chunk_len + j - 1)
ProductResidual(i, nsets, p, cs, pk, idx, tabs, ch) ==
    LET chunk_len == cs.degree - 2
        first == (i - 1) * chunk_len + 1
        last == Min(i * chunk_len, Len(cs.columns))
        z == CommittedSets(nsets, p)[i].permutation_product_coset
        x == (ch.beta * ZETA * FPow(extended_omega, idx)) % P
        col(j) == ColumnValues(cs.columns[j], tabs)[idx + 1]
        L[j \in (first - 1) .. last] ==
            IF j = first - 1 THEN z[((idx + rot_scale) % size) + 1]
            ELSE (L[j - 1]
                    * (col(j) + ch.beta * pk.permutation_cosets[j][idx + 1] + ch.gamma)) % P
        R[j \in (first - 1) .. last] ==
            IF j = first - 1 THEN z[idx + 1]
            ELSE (R[j - 1] * (col(j) + x * FPow(DELTA, j - 1) + ch.gamma)) % P
    IN  ((L[last] - R[last]) * pk.l_active_row[idx + 1]) % P

\* the permutation residuals: first-set boundary, last-set boolean, one
\* stitching term per set after the first, one product term per set
PermResiduals(nsets, p, cs, pk, idx, tabs, ch) ==
    IF nsets = 0 THEN <<>>
    ELSE LET z(i) == CommittedSets(nsets, p)[i].permutation_product_coset
             r_last == (idx + size * (cs.blinding_factors + 1)
                          - (cs.blinding_factors + 1) * rot_scale) % size
         IN  <<((1 - z(1)[idx + 1]) * pk.l0[idx + 1]) % P,
               ((z(nsets)[idx + 1] * z(nsets)[idx + 1] - z(nsets)[idx + 1])
                   * pk.l_last[idx + 1]) % P>>
             \o [i \in 1 .. (nsets - 1) |->
                    ((z(i + 1)[idx + 1] - z(i)[r_last + 1]) * pk.l0[idx + 1]) % P]
             \o [i \in 1 .. nsets |->
                    ProductResidual(i, nsets, p, cs, pk, idx, tabs, ch)]

\* the five identities of lookup n (0-based), in the order 3, 4, 5, 6, 7
LookupResiduals(n, wit, p, cs, pk, idx, tabs, ch) ==
    LET z == LookupCosetsOf[wit, p, n].product_coset
        a == LookupCosetsOf[wit, p, n].permuted_input_coset
        t == LookupCosetsOf[wit, p, n].permuted_table_coset
        r_next == (idx + rot_scale) % size
        r_prev == (idx + size - rot_scale) % size
        input == Compression(cs.lookups[n + 1].input_expressions, idx, tabs, ch.theta)
        table == Compression(cs.lookups[n + 1].table_expressions, idx, tabs, ch.theta)
    IN  <<((1 - z[idx + 1]) * pk.l0[idx + 1]) % P,
          ((z[idx + 1] * z[idx + 1] - z[idx + 1]) * pk.l_last[idx + 1]) % P,
          ((z[r_next + 1] * (a[idx + 1] + ch.beta) * (t[idx + 1] + ch.gamma)
              - z[idx + 1] * (input + ch.beta) * (table + ch.gamma))
             * pk.l_active_row[idx + 1]) % P,
          ((a[idx + 1] - t[idx + 1]) * pk.l0[idx + 1]) % P,
          ((a[idx + 1] - t[idx + 1]) * (a[idx + 1] - a[r_prev + 1])
             * pk.l_active_row[idx + 1]) % P>>

\* all residuals of proof p at row idx, in the assembly order
Residuals(i, p, idx) ==
    LET cs == CS(i.cs)
        LK[n \in 0 .. Len(cs.lookups)] ==
            IF n = 0 THEN <<>>
            ELSE LK[n - 1] \o LookupResiduals(n - 1, i.wit, p, cs, Pk(cs), idx,
                                              TablesOf[p], i.ch)
    IN  GateResiduals(cs, idx, TablesOf[p])
        \o PermResiduals(i.nsets, p, cs, Pk(cs), idx, TablesOf[p], i.ch)
        \o LK[Len(cs.lookups)]

\* v <- v * y + C for each residual C of the list, in order
HornerOver(v, y, residuals) ==
    LET H[k \in 0 .. Len(residuals)] ==
            IF k = 0 THEN v ELSE (H[k - 1] * y + residuals[k]) % P
    IN  H[Len(residuals)]

\* the value at row idx: from 0, the residuals of each proof in turn
HornerValue(i, idx) ==
    LET V[p \in 0 .. i.lens.advice] ==
            IF p = 0 THEN 0
            ELSE HornerOver(V[p - 1], i.ch.y, Residuals(i, p - 1, idx))
    IN  V[i.lens.advice]

\* the inputs evaluate_h is specified for: one entry per proof in each of
\* the four lists, and as many committed sets as column chunks
WellFormed(i) ==
    /\ LensEqual(i.lens)
    /\ i.nsets = CommittedChunking(CS(i.cs))

(***************************************************************************)
(* C2: on the CPU path, the value returned at every row is the result of   *)
(* starting from 0 and applying v <- v * y + C once per identity residual  *)
(* C in the fixed order: gate polynomials in declaration order, then the   *)
(* permutation boundary, boolean, stitching and product terms, then the    *)
(* five terms of each lookup in index order; nothing skipped, repeated or  *)
(* reordered.                                                              *)
(***************************************************************************)
HornerOrder ==
    (pc = "done" /\ ~inp.use_cuda /\ WellFormed(inp)) =>
        \A idx \in Rows : values[idx + 1] = HornerValue(inp, idx)

\* a returned vector of two proofs, each with four gate polynomials, five
\* permutation terms of two sets and the ten terms of two lookups, computed
\* by three workers
HornerOrderWitness ==
    /\ pc = "done"
    /\ ~inp.use_cuda
    /\ WellFormed(inp)
    /\ inp.cs = "rich"
    /\ inp.lens.advice = 2
    /\ inp.num_threads = 3
    /\ inp.ch.y = 2
    /\ \E idx \in Rows : values[idx + 1] # 0
    /\ Len(Residuals(inp, 1, 0)) = 4 + 5 + 10

(***************************************************************************)
(* C3: evaluate_h checks at entry that advice_polys, instance_polys,       *)
(* lookups and permutations have the same length and aborts when they do   *)
(* not: it never returns a vector for inputs whose lengths differ.         *)
(***************************************************************************)
LengthsCheckedAtEntry == pc = "done" => LensEqual(inp.lens)

(***************************************************************************)
(* C4: when the number of committed permutation sets differs from the      *)
(* number of chunks of chunk_len columns, evaluate_h fails: the            *)
(* permutation pass never completes with a product term for only some of   *)
(* the sets or only some of the column chunks.                             *)
(***************************************************************************)
ChunkingMismatchFatal ==
    (pc = "run" /\ pass = "perm" /\ ScopeJoined(workers)) =>
        inp.nsets = CommittedChunking(CS(inp.cs))

\* the passes of proof p, in order, as recorded in applied
PassesOfProof(i, p) ==
    <<<<p, "gates", 0>>>>
    \o (IF i.nsets > 0 THEN <<<<p, "perm", 0>>>> ELSE <<>>)
    \o [n \in 1 .. Len(CS(i.cs).lookups) |-> <<p, "lookup", n - 1>>]

\* the passes of all the proofs of the batch
AllPasses(i) ==
    LET A[p \in 0 .. i.lens.advice] ==
            IF p = 0 THEN <<>> ELSE A[p - 1] \o PassesOfProof(i, p - 1)
    IN  A[i.lens.advice]

(***************************************************************************)
(* C5: on the accelerator path a failing accelerator step is fatal: the    *)
(* caller never gets a vector in which the lookup identities of some proof *)
(* or the passes of a later proof have not been accumulated.               *)
(***************************************************************************)
AcceleratorFailureFatal ==
    (pc = "done" /\ inp.use_cuda) =>
        \A pos \in 1 .. size : applied[pos] = AllPasses(inp)

\* the custom-gate graph returns previous_value * y at every row; the graph
\* is fixed by Evaluator::new, so the claims below state this once, at entry
GraphReturnsPreviousTimesY(g, ch) ==
    \A idx \in Rows : \A previous_value \in F :
        Evaluate(g, Instance(g), TablesOf[0], ch, previous_value,
                 idx, rot_scale, size).value = FMul(previous_value, ch.y)

\* the last calculation of the custom-gate graph
GateHorner(g) == g.calculations[Len(g.calculations)].calculation

(***************************************************************************)
(* C6: for the single gate Advice(0, rot 0) - Advice(0, rot 0), the parts  *)
(* list of the custom-gate Horner holds the intermediate of the            *)
(* calculation Sub(Intermediate(0), Intermediate(0)), where Intermediate(0)*)
(* stores Advice(0, rot 0); the custom-gate graph evaluates at every row   *)
(* to previous_value * y; and evaluate_h, with no permutation sets,        *)
(* returns zero at every row.                                              *)
(***************************************************************************)
TrivialGate ==
    inp.cs = "trivial" =>
        /\ ev.custom_gates.calculations =
              <<[calculation |-> <<"Store", <<"Advice", 0, 0>>>>, target |-> 0],
                [calculation |-> <<"Sub", <<"Intermediate", 0>>, <<"Intermediate", 0>>>>,
                 target |-> 1],
                [calculation |-> <<"Horner", <<"PreviousValue">>,
                                   <<<<"Intermediate", 1>>>>, <<"Y">>>>,
                 target |-> 2]>>
        /\ pc = "entry" => GraphReturnsPreviousTimesY(ev.custom_gates, inp.ch)
        /\ (pc = "done" /\ inp.nsets = 0) => values = ZeroVector

\* two proofs of the trivial system returned by two workers
TrivialGateWitness ==
    /\ inp.cs = "trivial"
    /\ pc = "done"
    /\ inp.nsets = 0
    /\ inp.lens = EqualLens(2)
    /\ inp.num_threads = 2
    /\ values = ZeroVector
    /\ \A pos \in 1 .. size : applied[pos] = <<<<0, "gates", 0>>, <<1, "gates", 0>>>>

\* C6 as the specification words it: the parts list holds Constant(0)
TrivialGateConstantZero ==
    inp.cs = "trivial" =>
        /\ GateHorner(ev.custom_gates) =
              <<"Horner", <<"PreviousValue">>, <<Zero>>, <<"Y">>>>
        /\ pc = "entry" => GraphReturnsPreviousTimesY(ev.custom_gates, inp.ch)
        /\ (pc = "done" /\ inp.nsets = 0) => values = ZeroVector

\* the lookup of the running pass has product 1 and permuted input =
\* permuted table at every row, and its compressions are zero at every row
BoundaryLookup ==
    LET lc == LookupCosetsOf[inp.wit, proof, lk]
        lookup == CS(inp.cs).lookups[lk + 1]
    IN  \A idx \in Rows :
           /\ lc.product_coset[idx + 1] = 1
           /\ lc.permuted_input_coset[idx + 1] = lc.permuted_table_coset[idx + 1]
           /\ Compression(lookup.input_expressions, idx, TablesOf[proof],
                          inp.ch.theta) = 0
           /\ Compression(lookup.table_expressions, idx, TablesOf[proof],
                          inp.ch.theta) = 0

\* the five terms the running lookup pass accumulates at row idx
TermsAt(idx) ==
    LET lc == LookupCosetsOf[inp.wit, proof, lk]
        g == ev.lookups[lk + 1]
    IN  LookupTerms(idx,
                    Evaluate(g, Instance(g), TablesOf[proof], inp.ch, 0,
                             idx, rot_scale, size).value,
                    FSub(lc.permuted_input_coset[idx + 1],
                         lc.permuted_table_coset[idx + 1]),
                    get_rotation_idx(idx, 1, rot_scale, size),
                    get_rotation_idx(idx, -1, rot_scale, size),
                    lc, Pk(CS(inp.cs)), inp.ch)

\* ((a' + beta) (a' + gamma) - beta gamma) l_active_row at row idx
BoundaryTerm5(idx) ==
    LET a == LookupCosetsOf[inp.wit, proof, lk].permuted_input_coset[idx + 1]
    IN  (((a + inp.ch.beta) * (a + inp.ch.gamma) - inp.ch.beta * inp.ch.gamma)
            * Pk(CS(inp.cs)).l_active_row[idx + 1]) % P

\* the rows the workers of the running pass have processed
Processed ==
    UNION {workers[w].lo .. (workers[w].lo + workers[w].i - 1) :
              w \in 1 .. Len(workers)}

InBoundaryLookupPass ==
    pc = "run" /\ pass = "lookup" /\ BoundaryLookup

(***************************************************************************)
(* C7: for a lookup whose product coset is 1, whose permuted input equals  *)
(* its permuted table and whose compressions are zero at every row, terms  *)
(* 3, 4, 6 and 7 are zero at every row, term 5 is                          *)
(* ((a' + beta) (a' + gamma) - beta gamma) l_active_row, and the pass      *)
(* takes the value v of a row to v y^5 + term5 y^2, for every beta, gamma, *)
(* y and prior content of values.                                          *)
(***************************************************************************)
BoundaryLookupPass ==
    InBoundaryLookupPass =>
        /\ \A idx \in Rows :
              TermsAt(idx) = <<0, 0, BoundaryTerm5(idx), 0, 0>>
        /\ \A idx \in Processed :
              values[idx + 1] =
                 (snapshot[idx + 1] * FPow(inp.ch.y, 5)
                    + BoundaryTerm5(idx) * FPow(inp.ch.y, 2)) % P

\* a processed row of such a pass whose term 5 is not zero and whose value
\* the pass changed, with a prior value that is not zero
BoundaryLookupWitness ==
    /\ InBoundaryLookupPass
    /\ \E idx \in Processed :
          /\ BoundaryTerm5(idx) # 0
          /\ snapshot[idx + 1] # 0
          /\ values[idx + 1] # snapshot[idx + 1]

\* C7 as the specification words it: the five terms are zero and the pass
\* leaves values unchanged
BoundaryLookupUnchanged ==
    InBoundaryLookupPass =>
        /\ \A idx \in Rows : TermsAt(idx) = <<0, 0, 0, 0, 0>>
        /\ \A idx \in Processed : values[idx + 1] = snapshot[idx + 1]

\* the worker tasks whose sub-range holds position pos of values
Owners(pos) ==
    {w \in 1 .. Len(workers) :
        workers[w].lo <= pos /\ pos < workers[w].lo + workers[w].len}

(***************************************************************************)
(* C8: in every pass the sub-ranges given to the workers are pairwise      *)
(* disjoint and cover [0, N') exactly, every index is written by exactly   *)
(* one worker of the pass, and the row index start + i a worker computes   *)
(* for its i-th element is that element's position in values.              *)
(***************************************************************************)
WorkersPartition ==
    pc = "run" =>
        /\ \A pos \in Rows : Cardinality(Owners(pos)) = 1
        /\ \A w \in 1 .. Len(workers) :
              /\ workers[w].len > 0
              /\ workers[w].lo + workers[w].len <= size
              /\ \A i \in 0 .. (workers[w].len - 1) :
                    workers[w].start + i = workers[w].lo + i
        /\ \A pos \in 1 .. size :
              Len(SelectSeq(applied[pos], LAMBDA l : l = <<proof, pass, lk>>)) <= 1
        /\ (ScopeJoined(workers) /\ pass # "block1") =>
              \A pos \in 1 .. size :
                 Len(SelectSeq(applied[pos], LAMBDA l : l = <<proof, pass, lk>>)) = 1

\* three workers on eight rows (chunks of 3, 3 and 2) have all finished the
\* permutation pass
WorkersPartitionWitness ==
    /\ pc = "run"
    /\ pass = "perm"
    /\ Len(workers) = 3
    /\ workers[3].lo = 6 /\ workers[3].len = 2
    /\ ScopeJoined(workers)

\* the order of the passes of one proof
PassRank(name) ==
    CASE name = "gates" -> 0
      [] name = "perm" -> 1
      [] name = "lookup" -> 2
      [] OTHER -> 3

\* pass a of one proof comes before pass b of the same or a later proof
PassBefore(a, b) ==
    \/ a[1] < b[1]
    \/ /\ a[1] = b[1]
       /\ \/ PassRank(a[2]) < PassRank(b[2])
          \/ (a[2] = b[2] /\ a[3] < b[3])

(***************************************************************************)
(* C9: no worker of a pass processes a row before every worker of the      *)
(* pass before it has finished: gates, then permutation, then the lookups  *)
(* in index order, and the passes of proof p + 1 after all passes of proof *)
(* p.  At every moment all rows have been through the same passes, except  *)
(* that some have also been through the running one; and each row went     *)
(* through its passes in that order.                                       *)
(***************************************************************************)
PassBarrier ==
    /\ \E base \in 1 .. size : \A pos \in 1 .. size :
          \/ applied[pos] = applied[base]
          \/ pc = "run" /\ applied[pos] = Append(applied[base], <<proof, pass, lk>>)
    /\ \A pos \in 1 .. size : \A k \in 1 .. (Len(applied[pos]) - 1) :
          PassBefore(applied[pos][k], applied[pos][k + 1])

\* lookup 1 of the second proof is running on three workers: one has
\* finished, one has not started, and every row has been through the seven
\* passes before it
PassBarrierWitness ==
    /\ pc = "run" /\ pass = "lookup" /\ lk = 1 /\ proof = 1
    /\ inp.nsets > 0
    /\ Len(workers) = 3
    /\ workers[1].i = 0
    /\ workers[3].i = workers[3].len
    /\ \A pos \in 1 .. size : Len(applied[pos]) >= 7

(***************************************************************************)
(* evaluate_h run by a single worker: every pass goes through the rows     *)
(* 0 .. N' - 1 in order, carrying its scratch and its beta_term.           *)
(***************************************************************************)
OneWorkerGates(vals, e, i, p) ==
    LET R[k \in 0 .. size] ==
            IF k = 0 THEN [vals |-> vals, data |-> Instance(e.custom_gates)]
            ELSE LET prev == R[k - 1]
                     r == Evaluate(e.custom_gates, prev.data, TablesOf[p], i.ch,
                                   prev.vals[k], k - 1, rot_scale, size)
                 IN  [vals |-> [prev.vals EXCEPT ![k] = r.value], data |-> r.data]
    IN  R[size].vals

OneWorkerPerm(vals, i, p) ==
    LET R[k \in 0 .. size] ==
            IF k = 0 THEN [vals |-> vals, beta_term |-> BetaTermAt(0)]
            ELSE LET prev == R[k - 1]
                 IN  [vals |-> [prev.vals EXCEPT ![k] =
                                   PermRow(prev.vals[k], k - 1, prev.beta_term,
                                           CommittedSets(i.nsets, p), CS(i.cs),
                                           Pk(CS(i.cs)), TablesOf[p], i.ch)],
                      beta_term |-> FMul(prev.beta_term, extended_omega)]
    IN  R[size].vals

OneWorkerLookup(vals, e, i, p, n) ==
    LET R[k \in 0 .. size] ==
            IF k = 0 THEN [vals |-> vals, data |-> Instance(e.lookups[n + 1])]
            ELSE LET prev == R[k - 1]
                     r == Evaluate(e.lookups[n + 1], prev.data, TablesOf[p], i.ch,
                                   0, k - 1, rot_scale, size)
                 IN  [vals |-> [prev.vals EXCEPT ![k] =
                                   LookupRow(prev.vals[k], k - 1, r.value,
                                             LookupCosetsOf[i.wit, p, n],
                                             Pk(CS(i.cs)), i.ch)],
                      data |-> r.data]
    IN  R[size].vals

OneWorkerProof(vals, e, i, p) ==
    LET gates == OneWorkerGates(vals, e, i, p)
        perm == IF i.nsets > 0 THEN OneWorkerPerm(gates, i, p) ELSE gates
        L[n \in 0 .. Len(e.lookups)] ==
            IF n = 0 THEN perm ELSE OneWorkerLookup(L[n - 1], e, i, p, n - 1)
    IN  L[Len(e.lookups)]

OneWorkerRun(e, i) ==
    LET V[p \in 0 .. NumZip(i.lens)] ==
            IF p = 0 THEN ZeroVector ELSE OneWorkerProof(V[p - 1], e, i, p - 1)
    IN  V[NumZip(i.lens)]

\* what the running pass makes of the value v at row idx, computed for that
\* row alone: fresh scratch, beta_term = extended_omega^idx
RowAlone(v, idx) ==
    CASE pass = "gates" ->
            Evaluate(ev.custom_gates, Instance(ev.custom_gates), TablesOf[proof],
                     inp.ch, v, idx, rot_scale, size).value
      [] pass = "perm" ->
            PermRow(v, idx, FPow(extended_omega, idx), CommittedSets(inp.nsets, proof),
                    CS(inp.cs), Pk(CS(inp.cs)), TablesOf[proof], inp.ch)
      [] pass = "lookup" ->
            LookupRow(v, idx,
                      Evaluate(ev.lookups[lk + 1], Instance(ev.lookups[lk + 1]),
                               TablesOf[proof], inp.ch, 0, idx, rot_scale, size).value,
                      LookupCosetsOf[inp.wit, proof, lk], Pk(CS(inp.cs)), inp.ch)

(***************************************************************************)
(* C10: for fixed inputs the vector the CPU path returns is the same for   *)
(* every number of worker threads and every interleaving of the workers:   *)
(* it is the vector a single worker computes.  During a pass, the value of *)
(* a processed row is a function of the value that row had when the pass   *)
(* started and of the row index alone; an unprocessed row still has the    *)
(* value it had when the pass started.                                     *)
(***************************************************************************)
ThreadsDoNotMatter ==
    /\ (pc = "done" /\ ~inp.use_cuda) => values = OneWorkerRun(ev, inp)
    /\ (pc = "run" /\ pass \in {"gates", "perm", "lookup"}) =>
          \A idx \in Rows :
             values[idx + 1] = IF idx \in Processed
                               THEN RowAlone(snapshot[idx + 1], idx)
                               ELSE snapshot[idx + 1]

\* the permutation pass of the second proof, three workers: the last one
\* has finished before the first one started
ThreadsDoNotMatterWitness ==
    /\ pc = "run" /\ pass = "perm" /\ proof = 1
    /\ ~inp.use_cuda
    /\ Len(workers) = 3
    /\ workers[1].i = 0
    /\ workers[3].i = workers[3].len
    /\ values[size] # snapshot[size]


(***************************************************************************)
(* C11: add_expression aborts exactly when the walk reaches a Selector:    *)
(* the expression is a Selector, or holds one under Negated, Sum, Product  *)
(* or Scaled with a non-zero factor.  Scaled(a, 0) returns Constant(0)     *)
(* without compiling a, so a Selector below it is never reached.  An       *)
(* aborted call returns no ValueSource.                                    *)
(***************************************************************************)
\* the walk of add_expression over e passes a Selector to add_expression
RECURSIVE ReachesSelector(_)
ReachesSelector(e) ==
    CASE e[1] = "Selector" -> TRUE
      [] e[1] = "Negated" -> ReachesSelector(e[2])
      [] e[1] = "Scaled" -> e[3] # 0 /\ ReachesSelector(e[2])
      [] e[1] \in {"Sum", "Product"} -> ReachesSelector(e[2]) \/ ReachesSelector(e[3])
      [] OTHER -> FALSE

SelectorReachedAborts ==
    cpc # "start" =>
        /\ (cpc = "aborted") <=> ReachesSelector(expr)
        /\ cpc = "aborted" => (~result.ok /\ result.vs = <<"Abort">>)
        /\ cpc # "aborted" => (result.ok /\ result.vs # <<"Abort">>)

\* a Selector under Negated under a Product whose left operand is zero: the
\* right operand is compiled although the product folds to Constant(0)
SelectorReachedWitness ==
    /\ cpc = "aborted"
    /\ expr = <<"Product", <<"Constant", 0>>, <<"Negated", <<"Selector", 0>>>>>>

\* the claim as stated: a Selector at any depth, under any scale factor
SelectorAnywhereAborts ==
    (cpc # "start" /\ ~SelectorFree(expr)) => cpc = "aborted"


(***************************************************************************)
(* C12: for every index of the extended domain, every signed rotation and  *)
(* every rot_scale >= 1, get_rotation_idx returns the non-negative         *)
(* remainder of idx + rot * rot_scale modulo the domain size: the result   *)
(* is inside the domain, rotation 0 returns idx, and rotating by rot and   *)
(* then by -rot returns idx.                                               *)
(***************************************************************************)
RotationIsRemainder ==
    rot_pc \in {"returned", "panicked"} =>
        /\ rot_pc = "returned"
        /\ rot_ret = (rot_args.idx + (rot_args.rot * rot_args.rot_scale))
                         % rot_args.isize
        /\ rot_ret \in 0 .. (rot_args.isize - 1)
        /\ rot_args.rot = 0 => rot_ret = rot_args.idx
        /\ rot_args.from # -1 => rot_ret = rot_args.from


(***************************************************************************)
(* C13: for a constraint system with no gates, no lookups and no           *)
(* permutation sets, evaluate_h returns a vector of length exactly N'      *)
(* whose every entry is zero, for any number of proofs.                    *)
(***************************************************************************)
EmptySystemZero ==
    (pc = "done" /\ inp.cs = "empty") =>
        /\ Len(values) = Pow2(ExtendedK)
        /\ \A i \in 1 .. Len(values) : values[i] = 0

\* a batch of two proofs of the empty system went through the custom-gate
\* pass twice, on more than one task
EmptySystemWitness ==
    /\ pc = "done"
    /\ inp.cs = "empty"
    /\ inp.nsets = 0
    /\ NumZip(inp.lens) = 2
    /\ inp.num_threads > 1
    /\ \A i \in 1 .. size : /\ Len(applied[i]) = 2
                            /\ applied[i][1][2] = "gates"
                            /\ applied[i][2][2] = "gates"


(***************************************************************************)
(* C14: for every lookup, whatever its input and table expression lists    *)
(* (empty or equal to each other included), the last calculation of its    *)
(* graph is the Mul of (input compression + beta) and (table compression   *)
(* + gamma): the operands of the Mul are the targets of Add(ci, Beta) and  *)
(* Add(ct, Gamma), where ci and ct are the targets of the Horner over the  *)
(* compiled input (table) expressions from Constant(0) by Theta; and       *)
(* GraphEvaluator::evaluate returns (inp_compressed + beta) *              *)
(* (tab_compressed + gamma) at every row.                                  *)
(***************************************************************************)
\* the calculation whose result is the intermediate vs
CalculationOf(g, vs) == g.calculations[vs[2] + 1].calculation

LookupLastIsMul ==
    lpc # "new" =>
        LET last == lgraph.calculations[Len(lgraph.calculations)]
            lc == CalculationOf(lgraph, last.calculation[2])
            right_gamma == CalculationOf(lgraph, last.calculation[3])
            ci == CalculationOf(lgraph, lc[2])
            ct == CalculationOf(lgraph, right_gamma[2])
        IN  /\ last.target = lgraph.num_intermediates - 1
            /\ last.calculation[1] = "Mul"
            /\ lc[1] = "Add" /\ lc[3] = <<"Beta">>
            /\ right_gamma[1] = "Add" /\ right_gamma[3] = <<"Gamma">>
            /\ ci[1] = "Horner" /\ ci[2] = <<"Constant", 0>> /\ ci[4] = <<"Theta">>
            /\ ct[1] = "Horner" /\ ct[2] = <<"Constant", 0>> /\ ct[4] = <<"Theta">>
            /\ Len(ci[3]) = Len(argument.input_expressions)
            /\ Len(ct[3]) = Len(argument.table_expressions)
            /\ lpc = "evaluated" =>
                  lvalue = FMul(
                      FAdd(Compression(argument.input_expressions, lrow,
                                       TablesOfCompile, ChallengesOfCompile.theta),
                           ChallengesOfCompile.beta),
                      FAdd(Compression(argument.table_expressions, lrow,
                                       TablesOfCompile, ChallengesOfCompile.theta),
                           ChallengesOfCompile.gamma))

\* equal input and table lists: the two Horner calculations are one record,
\* and the value is not zero
LookupLastIsMulWitness ==
    /\ lpc = "evaluated"
    /\ Len(argument.input_expressions) = 2
    /\ argument.input_expressions = argument.table_expressions
    /\ argument.input_expressions[1] # argument.input_expressions[2]
    /\ Len(lgraph.calculations) < 8
    /\ lvalue # 0


(***************************************************************************)
(* C15: after any sequence of add_constant, add_rotation, add_calculation  *)
(* and add_expression calls, every calculation record has a target equal   *)
(* to its position in the list, every Intermediate(t) operand of a record  *)
(* (the parts, start and factor of a Horner included) has t below the      *)
(* record's target, and num_intermediates equals the length of the list.   *)
(***************************************************************************)
\* the ValueSource operands of a calculation
OperandsOf(calculation) ==
    CASE calculation[1] \in {"Add", "Sub", "Mul"} -> {calculation[2], calculation[3]}
      [] calculation[1] = "Horner" ->
            {calculation[2], calculation[4]}
                \cup {calculation[3][i] : i \in 1 .. Len(calculation[3])}
      [] OTHER -> {calculation[2]}

TargetsInOrder ==
    ge_calls > 0 =>
        /\ ge.num_intermediates = Len(ge.calculations)
        /\ \A i \in 1 .. Len(ge.calculations) :
              /\ ge.calculations[i].target = i - 1
              /\ \A vs \in OperandsOf(ge.calculations[i].calculation) :
                    vs[1] = "Intermediate" => vs[2] < ge.calculations[i].target

\* three calls left three records, the last a Horner over earlier
\* intermediates
TargetsInOrderWitness ==
    /\ ge_calls = 3
    /\ Len(ge.calculations) = 3
    /\ ge_call[1] = "add_calculation"
    /\ ge.calculations[3].calculation[1] = "Horner"
    /\ ge.calculations[3].calculation[3] = <<<<"Intermediate", 1>>, <<"Intermediate", 0>>>>


(***************************************************************************)
(* C16: in the permutation pass, at every row idx and whatever the chunk   *)
(* boundaries, the current_delta multiplied in for the j-th permutation    *)
(* column (j counted from 0 across all column chunks) is                   *)
(* beta * ZETA * extended_omega^idx * DELTA^j: it advances once per        *)
(* column, is not reset at a chunk boundary, and is re-seeded at each row. *)
(***************************************************************************)
\* the row a task of the permutation pass is about to process, as the loop
\* of lines 449-511 runs it
NextPermRow(w) ==
    PermRowRun(values[workers[w].lo + workers[w].i + 1],
               workers[w].start + workers[w].i, workers[w].beta_term,
               CommittedSets(inp.nsets, proof), CS(inp.cs), Pk(CS(inp.cs)),
               TablesOf[proof], inp.ch)

\* the number of columns in the first n column chunks
ColumnsInChunks(cs, n) == Min(Len(cs.columns), n * ChunkLen(cs))

DeltaLadder ==
    (pc = "run" /\ pass = "perm") =>
        \A w \in DOMAIN workers :
            workers[w].i < workers[w].len =>
                LET idx == workers[w].start + workers[w].i
                    deltas == NextPermRow(w).deltas
                IN  /\ Len(deltas) = ColumnsInChunks(CS(inp.cs), inp.nsets)
                    /\ \A j \in 0 .. (Len(deltas) - 1) :
                          deltas[j + 1]
                              = (inp.ch.beta * ZETA * FPow(extended_omega, idx)
                                   * FPow(DELTA, j)) % P

\* a task that starts at a row other than 0 is past its first row, and the
\* product loop crosses a column-chunk boundary
DeltaLadderWitness ==
    /\ pc = "run" /\ pass = "perm"
    /\ inp.ch.beta \notin {0, 1}
    /\ \E w \in DOMAIN workers :
          /\ workers[w].start > 0
          /\ workers[w].i > 0
          /\ workers[w].i < workers[w].len
          /\ Len(NextPermRow(w).deltas) > ChunkLen(CS(inp.cs))


(***************************************************************************)
(* C17: add_calculation with a calculation structurally equal to one the   *)
(* graph holds returns Intermediate(target of that record) and leaves      *)
(* calculations and num_intermediates unchanged; otherwise it appends      *)
(* exactly one record.  Hence no two records of a graph hold structurally  *)
(* equal calculations.                                                     *)
(***************************************************************************)
AddCalculationDedupes ==
    ge_calls > 0 =>
        /\ \A i, j \in 1 .. Len(ge.calculations) :
              i # j => ge.calculations[i].calculation # ge.calculations[j].calculation
        /\ ge_call[1] = "add_calculation" =>
              LET hits == {i \in 1 .. Len(ge_before.calculations) :
                              ge_before.calculations[i].calculation = ge_call[2]}
              IN  IF hits # {}
                  THEN /\ ge = ge_before
                       /\ \A i \in hits :
                             ge_ret = <<"Intermediate", ge_before.calculations[i].target>>
                  ELSE /\ ge.calculations
                             = Append(ge_before.calculations,
                                      [calculation |-> ge_call[2],
                                       target |-> ge_before.num_intermediates])
                       /\ ge.num_intermediates = ge_before.num_intermediates + 1
                       /\ ge.constants = ge_before.constants
                       /\ ge.rotations = ge_before.rotations
                       /\ ge_ret = <<"Intermediate", ge_before.num_intermediates>>

\* the third call repeats the calculation of the first: the graph keeps its
\* two records and the call returns the target of the first
AddCalculationDedupesWitness ==
    /\ ge_calls = 3
    /\ ge_call[1] = "add_calculation"
    /\ Len(ge_before.calculations) = 2
    /\ ge = ge_before
    /\ ge_ret = <<"Intermediate", 0>>
    /\ ge_call[2] = ge.calculations[1].calculation

(***************************************************************************)
(* C18: constants[0], constants[1], constants[2] are 0, 1, 2; the entries  *)
(* of constants are pairwise distinct; add_constant(c) returns Constant(i) *)
(* with constants[i] = c, appending c only when it is absent; and no call  *)
(* changes an existing slot.                                               *)
(***************************************************************************)
\* s is a prefix of t
IsPrefix(s, t) == Len(s) <= Len(t) /\ \A i \in 1 .. Len(s) : t[i] = s[i]

ConstantsPool ==
    ge_calls > 0 =>
        /\ ge.constants[1] = 0 /\ ge.constants[2] = 1 /\ ge.constants[3] = 2
        /\ \A i, j \in 1 .. Len(ge.constants) :
              i # j => ge.constants[i] # ge.constants[j]
        /\ IsPrefix(ge_before.constants, ge.constants)
        /\ ge_call[1] = "add_constant" =>
              /\ ge_ret[1] = "Constant"
              /\ ge_ret[2] \in 0 .. (Len(ge.constants) - 1)
              /\ ge.constants[ge_ret[2] + 1] = ge_call[2]
              /\ IF \E i \in 1 .. Len(ge_before.constants) :
                         ge_before.constants[i] = ge_call[2]
                  THEN ge = ge_before
                  ELSE /\ ge.constants = Append(ge_before.constants, ge_call[2])
                       /\ ge.calculations = ge_before.calculations
                       /\ ge.rotations = ge_before.rotations
                       /\ ge.num_intermediates = ge_before.num_intermediates

\* a new constant was appended, then an add_expression appended another,
\* then add_constant found the first one again
ConstantsPoolWitness ==
    /\ ge_calls = 3
    /\ ge_call = <<"add_constant", (0 - 1) % P>>
    /\ ge = ge_before
    /\ ge.constants = <<0, 1, 2, (0 - 1) % P, 3>>
    /\ ge_ret = <<"Constant", 3>>


(***************************************************************************)
(* C19: in a Sum(a, b) whose right operand is Negated(b'), with ca and cb' *)
(* the ValueSources of a and b': when ca is Constant(0) the compiler emits *)
(* Negate(cb') and returns its intermediate, whatever cb' is; otherwise    *)
(* when cb' is Constant(0) it returns ca; otherwise it emits Sub(ca, cb'). *)
(* In a Sum whose right operand is not Negated, when one operand compiled  *)
(* to Constant(0) it returns exactly the ValueSource of the other operand  *)
(* (Constant(0) when that one is zero too).  No Add or Sub is emitted when *)
(* an operand compiled to Constant(0).                                     *)
(***************************************************************************)
\* the calculations of g with one of the given variant names
CalculationsNamed(g, names) ==
    {g.calculations[i].calculation : i \in {j \in 1 .. Len(g.calculations) :
                                               g.calculations[j].calculation[1] \in names}}

\* vs is the intermediate of the calculation calc of g
IsResultOf(g, vs, calc) ==
    /\ vs[1] = "Intermediate"
    /\ vs[2] < Len(g.calculations)
    /\ g.calculations[vs[2] + 1].calculation = calc

SumRewrites ==
    (cpc = "compiled" /\ expr[1] = "Sum") =>
        LET negated == expr[3][1] = "Negated"
            ca == AddExpression(DefaultGraph, expr[2])
            cb == AddExpression(ca.g, IF negated THEN expr[3][2] ELSE expr[3])
            operands == CalculationsNamed(cb.g, {"Add", "Sub"})
        IN  IF negated
            THEN IF ca.vs = Zero
                 THEN /\ IsResultOf(graph, result.vs, <<"Negate", cb.vs>>)
                      /\ CalculationsNamed(graph, {"Add", "Sub"}) = operands
                 ELSE IF cb.vs = Zero
                 THEN result.vs = ca.vs /\ graph = cb.g
                 ELSE IsResultOf(graph, result.vs, <<"Sub", ca.vs, cb.vs>>)
            ELSE IF ca.vs = Zero
                 THEN result.vs = cb.vs /\ graph = cb.g
                 ELSE IF cb.vs = Zero
                 THEN result.vs = ca.vs /\ graph = cb.g
                 ELSE \/ IsResultOf(graph, result.vs, <<"Add", ca.vs, cb.vs>>)
                      \/ IsResultOf(graph, result.vs, <<"Add", cb.vs, ca.vs>>)

\* 0 + (-0): both operands compiled to Constant(0), and the compiler
\* returned the intermediate of Negate(Constant(0))
SumRewritesWitness ==
    /\ cpc = "compiled"
    /\ expr = <<"Sum", <<"Constant", 0>>, <<"Negated", <<"Constant", 0>>>>>>
    /\ result.vs = <<"Intermediate", 0>>
    /\ graph.calculations[1].calculation = <<"Negate", <<"Constant", 0>>>>

\* the claim as stated: a - b' becomes Sub when neither side is zero, and
\* in every Sum a zero operand makes add_expression return what compiling
\* the other operand alone returns, with no Add or Sub emitted
SumReturnsOtherOperand ==
    (cpc = "compiled" /\ expr[1] = "Sum") =>
        LET ca == AddExpression(DefaultGraph, expr[2])
            cb == AddExpression(ca.g, expr[3])
            cbint == AddExpression(ca.g, expr[3][2])
        IN  /\ (expr[3][1] = "Negated" /\ ca.vs # Zero /\ cbint.vs # Zero) =>
                  IsResultOf(graph, result.vs, <<"Sub", ca.vs, cbint.vs>>)
            /\ ca.vs = Zero =>
                  /\ result.vs = cb.vs
                  /\ CalculationsNamed(graph, {"Add", "Sub"})
                        = CalculationsNamed(cb.g, {"Add", "Sub"})
            /\ (ca.vs # Zero /\ cb.vs = Zero) =>
                  /\ result.vs = ca.vs
                  /\ CalculationsNamed(graph, {"Add", "Sub"})
                        = CalculationsNamed(cb.g, {"Add", "Sub"})


(***************************************************************************)
(* C20: in a Product(a, b), with ca and cb the ValueSources of a and b: if *)
(* either is Constant(0) the result is Constant(0); otherwise if one is    *)
(* Constant(1) the result is the other; otherwise if one is Constant(2)    *)
(* the result is Double of the other; otherwise if ca = cb the result is   *)
(* Square; a Mul is emitted only when none of these applies.               *)
(***************************************************************************)
ProductRewrites ==
    (cpc = "compiled" /\ expr[1] = "Product") =>
        LET ca == AddExpression(DefaultGraph, expr[2])
            cb == AddExpression(ca.g, expr[3])
            no_mul == CalculationsNamed(graph, {"Mul"}) = CalculationsNamed(cb.g, {"Mul"})
        IN  IF ca.vs = Zero \/ cb.vs = Zero
            THEN result.vs = Zero /\ graph = cb.g
            ELSE IF ca.vs = One \/ cb.vs = One
            THEN /\ \/ ca.vs = One /\ result.vs = cb.vs
                    \/ cb.vs = One /\ result.vs = ca.vs
                 /\ graph = cb.g
            ELSE IF ca.vs = Two \/ cb.vs = Two
            THEN /\ \/ ca.vs = Two /\ IsResultOf(graph, result.vs, <<"Double", cb.vs>>)
                    \/ cb.vs = Two /\ IsResultOf(graph, result.vs, <<"Double", ca.vs>>)
                 /\ no_mul
            ELSE IF ca.vs = cb.vs
            THEN IsResultOf(graph, result.vs, <<"Square", ca.vs>>) /\ no_mul
            ELSE \/ IsResultOf(graph, result.vs, <<"Mul", ca.vs, cb.vs>>)
                 \/ IsResultOf(graph, result.vs, <<"Mul", cb.vs, ca.vs>>)

\* 2 * 2: the operands are the same ValueSource, and the test for
\* Constant(2) wins over the test for equal operands
ProductRewritesWitness ==
    /\ cpc = "compiled"
    /\ expr = <<"Product", <<"Constant", 2>>, <<"Constant", 2>>>>
    /\ IsResultOf(graph, result.vs, <<"Double", <<"Constant", 2>>>>)
    /\ Len(graph.calculations) = 1


(***************************************************************************)
(* C21: every Add emitted for a Sum and every Mul emitted for a Product    *)
(* has the smaller ValueSource as its left operand; so, for operands a and *)
(* b that are not Negated forms, compiling Sum(b, a) (Product(b, a)) into  *)
(* the graph that compiled Sum(a, b) (Product(a, b)) returns the same      *)
(* ValueSource and appends no calculation.                                 *)
(***************************************************************************)
CanonicalOrder ==
    (cpc = "compiled" /\ expr[1] \in {"Sum", "Product"}) =>
        LET swapped == AddExpression(graph, <<expr[1], expr[3], expr[2]>>)
            ca == AddExpression(DefaultGraph, expr[2])
            operands == AddExpression(ca.g, expr[3]).g
        IN  /\ \A c \in CalculationsNamed(graph, {"Add"}) : VSLeq(c[2], c[3])
            /\ \A i \in (Len(operands.calculations) + 1) .. Len(graph.calculations) :
                  graph.calculations[i].calculation[1] = "Mul" =>
                      VSLeq(graph.calculations[i].calculation[2],
                            graph.calculations[i].calculation[3])
            /\ (expr[2][1] # "Negated" /\ expr[3][1] # "Negated") =>
                  /\ swapped.vs = result.vs
                  /\ swapped.g = graph

\* a + 2 with a an Advice query: the Store of the query is Intermediate(0),
\* the constant is the smaller source and went to the left of the Add
CanonicalOrderWitness ==
    /\ cpc = "compiled"
    /\ expr = <<"Sum", <<"Advice", 1, 1>>, <<"Constant", 2>>>>
    /\ IsResultOf(graph, result.vs, <<"Add", <<"Constant", 2>>, <<"Intermediate", 0>>>>)


(***************************************************************************)
(* C22: compiling Scaled(a, f): when f = 0 the result is Constant(0); when *)
(* f = 1 the result is the ValueSource of compiling a alone; otherwise the *)
(* result is the intermediate of Mul(compile(a), add_constant(f)), with    *)
(* compile(a) as the left operand and the constant as the right operand.   *)
(***************************************************************************)
ScaledRewrites ==
    (cpc = "compiled" /\ expr[1] = "Scaled") =>
        IF expr[3] = 0 THEN result.vs = <<"Constant", 0>>
        ELSE IF expr[3] = 1
        THEN LET alone == AddExpression(DefaultGraph, expr[2])
             IN  result.vs = alone.vs /\ graph = alone.g
        ELSE LET ca == AddExpression(graph, expr[2])
                 i == Position(graph.constants, expr[3])
             IN  /\ i >= 0
                 /\ ca.g = graph
                 /\ IsResultOf(graph, result.vs, <<"Mul", ca.vs, <<"Constant", i>>>>)

\* 3 * 0: the operand compiled to Constant(0), the factor went to slot 3 of
\* the pool, and the Mul was emitted with the operand on the left
ScaledRewritesWitness ==
    /\ cpc = "compiled"
    /\ expr = <<"Scaled", <<"Constant", 0>>, 3>>
    /\ graph.constants = <<0, 1, 2, 3>>
    /\ IsResultOf(graph, result.vs, <<"Mul", <<"Constant", 0>>, <<"Constant", 3>>>>)


(***************************************************************************)
(* C23: compiling Negated(x): when x is Constant(c) the result is          *)
(* add_constant(-c) and no calculation is emitted; when x compiled to      *)
(* Constant(0) the result is Constant(0) and no Negate is emitted;         *)
(* otherwise the result is the intermediate of Negate(compile(x)).         *)
(***************************************************************************)
NegatedRewrites ==
    (cpc = "compiled" /\ expr[1] = "Negated") =>
        IF expr[2][1] = "Constant"
        THEN /\ result.vs[1] = "Constant"
             /\ result.vs[2] < Len(graph.constants)
             /\ (graph.constants[result.vs[2] + 1] + expr[2][2]) % P = 0
             /\ graph.calculations = <<>>
        ELSE LET cx == AddExpression(DefaultGraph, expr[2])
             IN  IF cx.vs = <<"Constant", 0>>
                 THEN result.vs = <<"Constant", 0>> /\ graph = cx.g
                 ELSE /\ IsResultOf(graph, result.vs, <<"Negate", cx.vs>>)
                      /\ Len(graph.calculations) <= Len(cx.g.calculations) + 1

\* -(0 * a): the product compiled its Advice operand and folded to
\* Constant(0); the negation returned Constant(0) and emitted nothing
NegatedRewritesWitness ==
    /\ cpc = "compiled"
    /\ expr = <<"Negated", <<"Product", <<"Constant", 0>>, <<"Advice", 1, 1>>>>>>
    /\ result.vs = <<"Constant", 0>>
    /\ Len(graph.calculations) = 1
    /\ graph.calculations[1].calculation[1] = "Store"


(***************************************************************************)
(* C24: in one graph, after any sequence of add_expression calls, the      *)
(* rotations pool holds each signed rotation amount at most once and there *)
(* is at most one Store record per distinct (column kind, column index,    *)
(* rotation amount) and per distinct challenge index; a later Fixed,       *)
(* Advice, Instance or Challenge expression with the same column and       *)
(* rotation returns the Intermediate of the first one and appends nothing. *)
(***************************************************************************)
\* the column query or challenge that record i of g stores, with the
\* rotation index resolved to the signed amount it stands for
StoredQuery(g, i) ==
    LET source == g.calculations[i].calculation[2]
    IN  IF source[1] = "Challenge"
        THEN source
        ELSE <<source[1], source[2], g.rotations[source[3] + 1]>>

StoreRecords(g) ==
    {i \in 1 .. Len(g.calculations) : g.calculations[i].calculation[1] = "Store"}

StoresOnce ==
    /\ \A i, j \in 1 .. Len(ge.rotations) :
          ge.rotations[i] = ge.rotations[j] => i = j
    /\ \A i, j \in StoreRecords(ge) :
          StoredQuery(ge, i) = StoredQuery(ge, j) => i = j
    /\ (/\ ge_call[1] = "add_expression"
        /\ ge_call[2][1] \in {"Fixed", "Advice", "Instance", "Challenge"})
          => \A i \in StoreRecords(ge_before) :
                StoredQuery(ge_before, i) = ge_call[2]
                    => /\ ge = ge_before
                       /\ ge_ret = <<"Intermediate", ge_before.calculations[i].target>>

\* a[1] at rotation 1, a[1] at rotation -1, then a[1] at rotation -1 again:
\* two rotations, two Store records, and the third call returned the second
StoresOnceWitness ==
    /\ ge_call = <<"add_expression", <<"Advice", 1, -1>>>>
    /\ ge.rotations = <<1, -1>>
    /\ ge = ge_before
    /\ Len(ge.calculations) = 2
    /\ ge.calculations[1].calculation = <<"Store", <<"Advice", 1, 0>>>>
    /\ ge.calculations[2].calculation = <<"Store", <<"Advice", 1, 1>>>>
    /\ ge_ret = <<"Intermediate", 1>>


(***************************************************************************)
(* C25: after Evaluator::new the custom-gate graph holds exactly one       *)
(* Horner calculation, it is the last record, its start is PreviousValue,  *)
(* its factor is Y and its parts are the compiled gate polynomials in      *)
(* declaration order, gate by gate and polynomial by polynomial; with k    *)
(* parts p_0..p_(k-1) evaluate returns                                     *)
(* previous_value * y^k + sum over i of p_i * y^(k-1-i), and with no gate  *)
(* polynomials it returns previous_value unchanged.                        *)
(***************************************************************************)
\* polynomial n (from 0) of the constraint system, counting through the
\* gates in declaration order and through each gate's polynomials in order
RECURSIVE DeclaredPolynomial(_, _, _)
DeclaredPolynomial(gates, gate, n) ==
    IF n < Len(gates[gate])
    THEN gates[gate][n + 1]
    ELSE DeclaredPolynomial(gates, gate + 1, n - Len(gates[gate]))

RECURSIVE NumPolynomials(_, _)
NumPolynomials(gates, gate) ==
    IF gate > Len(gates) THEN 0
    ELSE Len(gates[gate]) + NumPolynomials(gates, gate + 1)

\* previous_value * y^k + sum over i in 0 .. k-1 of p(i) * y^(k-1-i)
RECURSIVE PowerSum(_, _, _, _)
PowerSum(p(_), y, k, n) ==
    IF n = 0 THEN 0
    ELSE FAdd(PowerSum(p, y, k, n - 1), FMul(p(n - 1), FPow(y, k - n)))

GateClosedForm(cs, tabs, y, previous_value, idx) ==
    LET k == NumPolynomials(cs.gates, 1)
        p(i) == ExprEvaluate(DeclaredPolynomial(cs.gates, 1, i), idx, rot_scale, size, tabs)
    IN  FAdd(FMul(previous_value, FPow(y, k)), PowerSum(p, y, k, k))

\* running values handed to the graph: zero, one, a mid-field value and -1
PreviousValues == {0, 1, 41, P - 1}

OneGateHorner ==
    LET g == ev.custom_gates
        cs == CS(inp.cs)
        k == NumPolynomials(cs.gates, 1)
        last == Len(g.calculations)
    IN  /\ CalculationsNamed(g, {"Horner"}) = {GateHorner(g)}
        /\ \A i \in 1 .. last : g.calculations[i].calculation[1] = "Horner" => i = last
        /\ GateHorner(g)[2] = <<"PreviousValue">>
        /\ GateHorner(g)[4] = <<"Y">>
        /\ Len(GateHorner(g)[3]) = k
        /\ \A i \in 1 .. k :
              AddExpression(g, DeclaredPolynomial(cs.gates, 1, i - 1)) =
                  [g |-> g, vs |-> GateHorner(g)[3][i], ok |-> TRUE]
        /\ pc = "entry" =>
              \A idx \in Rows : \A previous_value \in PreviousValues :
                 LET value == Evaluate(g, Instance(g), TablesOf[0], inp.ch,
                                       previous_value, idx, rot_scale, size).value
                 IN  /\ value = GateClosedForm(cs, TablesOf[0], inp.ch.y,
                                               previous_value, idx)
                     /\ k = 0 => value = previous_value

\* the four polynomials of the two gates of the rich system: the parts are
\* the sources of a0*a1 - f0, a0(+1) + i0, 3*a1(-1) and a0*a1 again
OneGateHornerWitness ==
    /\ inp.cs = "rich"
    /\ pc = "entry"
    /\ inp.ch.y = 2
    /\ Len(GateHorner(ev.custom_gates)[3]) = 4
    /\ GateHorner(ev.custom_gates)[3][4] # GateHorner(ev.custom_gates)[3][1]
    /\ \E t \in 0 .. ev.custom_gates.num_intermediates :
          /\ GateHorner(ev.custom_gates)[3][4] = <<"Intermediate", t>>
          /\ IsResultOf(ev.custom_gates, <<"Intermediate", t>>,
                        <<"Mul", <<"Intermediate", 0>>, <<"Intermediate", 1>>>>)


(***************************************************************************)
(* C26: for a graph built only through add_constant, add_rotation,         *)
(* add_calculation and add_expression, the value GraphEvaluator::evaluate  *)
(* returns at a row does not depend on what the scratch EvaluationData     *)
(* held before the call: every rotation slot and every intermediate slot   *)
(* read during a call was written earlier in that same call, so a worker   *)
(* may reuse one scratch across all rows of its chunk.                     *)
(***************************************************************************)
\* the sources a calculation reads, the parts of a Horner included
SourcesRead(calculation) ==
    IF calculation[1] = "Horner"
    THEN {calculation[2], calculation[4]}
            \cup {calculation[3][n] : n \in 1 .. Len(calculation[3])}
    ELSE {calculation[n] : n \in 2 .. Len(calculation)}

\* record i of g reads only intermediate slots that records before i write
\* and rotation slots that the loop over g.rotations writes
ReadsWritten(g, i) ==
    \A source \in SourcesRead(g.calculations[i].calculation) :
        /\ source[1] = "Intermediate" =>
              \E j \in 1 .. (i - 1) : g.calculations[j].target = source[2]
        /\ source[1] \in {"Fixed", "Advice", "Instance"} =>
              source[3] < Len(g.rotations)

\* a scratch of g whose every slot holds a value no call wrote
StaleScratch(g) ==
    [intermediates |-> [i \in 1 .. g.num_intermediates |-> P - 1],
     rotations |-> [i \in 1 .. Len(g.rotations) |-> size - 1]]

\* GraphEvaluator::evaluate of g at row idx on the scratch before
EvaluateOn(g, before, idx) ==
    Evaluate(g, before, TablesOfCompile, ChallengesOfCompile, 0, idx, rot_scale, size)

\* the value at row idx is the same from the zeroed scratch of instance(),
\* from the scratch a call at row other left, and from values no call wrote
SameFromAnyScratch(g, idx, other) ==
    LET fresh == EvaluateOn(g, Instance(g), idx).value
    IN  /\ EvaluateOn(g, EvaluateOn(g, Instance(g), other).data, idx).value = fresh
        /\ EvaluateOn(g, StaleScratch(g), idx).value = fresh

ScratchDoesNotMatter ==
    /\ \A i \in 1 .. Len(ge.calculations) : ReadsWritten(ge, i)
    /\ SameFromAnyScratch(ge, 0, size - 1)
    /\ SameFromAnyScratch(ge, size - 1, 0)

\* a[1] at rotation 1 stored, Beta added to it, and the sum added to
\* itself: the last record reads an intermediate, the first a rotation slot,
\* and the scratch the last row leaves differs from the one instance() makes
ScratchDoesNotMatterWitness ==
    /\ ge_calls = 3
    /\ Len(ge.rotations) = 1
    /\ Len(ge.calculations) = 3
    /\ ge.calculations[1].calculation = <<"Store", <<"Advice", 1, 0>>>>
    /\ ge.calculations[3].calculation[1] = "Add"
    /\ <<"Intermediate", 1>> \in SourcesRead(ge.calculations[3].calculation)
    /\ EvaluateOn(ge, Instance(ge), size - 1).data
          \notin {Instance(ge), EvaluateOn(ge, Instance(ge), 0).data}

============================================================================
